---- MODULE Spec2Model ----
(***************************************************************************)
(* Model of the Over 1.5 goals value-detection system.                     *)
(*                                                                         *)
(* Two revisions of the value detector live in the repository:             *)
(*   football_value_detector/src/value_detector.py  (names as in source)   *)
(*   src/value_detector.py                          (names prefixed src_)  *)
(* together with the scheduler's MockValueDetector (scheduler.py) and the  *)
(* runner's final sort (src/src/runner.py).                                *)
(*                                                                         *)
(* Python floats are modelled as exact rationals [n |-> Int, d |-> Nat],   *)
(* kept in lowest terms, so that = on records is equality of numbers.      *)
(***************************************************************************)
EXTENDS Integers, Sequences, FiniteSets, TLC

VARIABLES
    op,             \* which operation produced ret ("init" before the call)
    args,           \* the arguments of the pure call under analysis
    ret,            \* what the call returned
    opportunities,  \* a list of opportunity dicts (ranking input / scheduler batch)
    ranked,         \* the list a ranking step returned
    pc,             \* position of analyze_daily_matches: "idle" | "loop" | "done"
    idx,            \* number of fixtures the batch loop has processed
    saved,          \* arguments of db.save_opportunity, in call order
    suggestions,    \* arguments of telegram.notify_suggestion, in call order
    telegram,       \* whether Scheduler.telegram is set (TELEGRAM_ENABLED with credentials)
    db,             \* the SQLite file: rows of its tables and the AUTOINCREMENT counter of opportunities
    scheduler_lock, \* the module-level flag scheduler_lock of src/main.py
    threads,        \* what each thread of the service is doing (position and locals)
    requests,       \* the HTTP requests issued so far, in order
    now,            \* time.time(), in seconds
    last_request_time   \* FootballAPIClient.last_request_time

\* the state of the running service: threads, the clock and the provider's view
service == <<scheduler_lock, threads, requests, now, last_request_time>>

vars == <<op, args, ret, opportunities, ranked, pc, idx, saved, suggestions, telegram, db,
          scheduler_lock, threads, requests, now, last_request_time>>

----------------------------------------------------------------------------
(* Exact rational arithmetic standing for Python float arithmetic.          *)

AbsInt(a) == IF a < 0 THEN -a ELSE a

RECURSIVE GCD(_, _)
GCD(a, b) == IF b = 0 THEN a ELSE GCD(b, a % b)

\* the rational n/d in lowest terms with a positive denominator (d # 0)
R(n, d) ==
    LET s == IF d < 0 THEN -1 ELSE 1
        g == GCD(AbsInt(n), AbsInt(d))
    IN  [n |-> (s * n) \div g, d |-> (s * d) \div g]

Int2R(k) == [n |-> k, d |-> 1]
Zero == Int2R(0)
One  == Int2R(1)

RAdd(x, y) ==
    LET g == GCD(x.d, y.d)
    IN  R(x.n * (y.d \div g) + y.n * (x.d \div g), (x.d \div g) * y.d)
RNeg(x)    == [n |-> -x.n, d |-> x.d]
RSub(x, y) == RAdd(x, RNeg(y))
RMul(x, y) ==
    LET g1 == GCD(AbsInt(x.n), y.d)
        g2 == GCD(AbsInt(y.n), x.d)
        a  == IF g1 = 0 THEN 1 ELSE g1
        b  == IF g2 = 0 THEN 1 ELSE g2
    IN  R((x.n \div a) * (y.n \div b), (x.d \div b) * (y.d \div a))
\* x / y for y # 0 (a zero divisor is a ZeroDivisionError, handled by callers)
RDiv(x, y) == RMul(x, R(y.d, y.n))
RLt(x, y)  == x.n * y.d < y.n * x.d
RLe(x, y)  == x.n * y.d <= y.n * x.d
RGe(x, y)  == RLe(y, x)
RGt(x, y)  == RLt(y, x)
RMin(x, y) == IF RLt(y, x) THEN y ELSE x     \* Python min(x, y)
RMax(x, y) == IF RGt(y, x) THEN y ELSE x     \* Python max(x, y)
RAbs(x)    == [n |-> AbsInt(x.n), d |-> x.d]

Pow10(k) == IF k = 0 THEN 1 ELSE IF k = 1 THEN 10 ELSE IF k = 2 THEN 100
            ELSE IF k = 3 THEN 1000 ELSE 10000

\* floor of the rational x
RFloor(x) == x.n \div x.d

\* round as a bug would have it: truncation toward minus infinity
round_floor(x, ndigits, tieUp) ==
    R(RFloor(RMul(x, Int2R(Pow10(ndigits)))), Pow10(ndigits))

\* Python round(x, ndigits): the nearest multiple of 10^-ndigits.  A decimal
\* tie is decided by the binary value of the float, which lies on either side
\* of the tie; tieUp is that outcome.
round(x, ndigits, tieUp) ==
    LET s    == RMul(x, Int2R(Pow10(ndigits)))
        lo   == RFloor(s)
        frac == RSub(s, Int2R(lo))
        half == R(1, 2)
        k    == IF RLt(frac, half) THEN lo
                ELSE IF RGt(frac, half) THEN lo + 1
                ELSE IF tieUp THEN lo + 1 ELSE lo
    IN  R(k, Pow10(ndigits))

----------------------------------------------------------------------------
(* football_value_detector/src/value_detector.py : class ValueDetector      *)

MIN_CONFIDENCE  == R(60, 100)
MIN_EV          == R(5, 100)
MIN_PROBABILITY == R(65, 100)
MAX_ODDS        == R(250, 100)
MIN_ODDS        == R(110, 100)
kelly_fraction  == R(25, 100)

\* Python None
None == [type |-> "None"]

calculate_implied_probability(odds) ==
    IF odds.n = 0 THEN Zero ELSE RDiv(One, odds)

calculate_expected_value(our_probability, odds) ==
    RSub(RMul(our_probability, odds), One)

\* meets_criteria with the EV test (step 4) left out
meets_criteria_no_ev(probability, confidence, odds) ==
    IF RLt(probability, R(65, 100)) THEN FALSE
    ELSE IF RLt(confidence, R(60, 100)) THEN FALSE
    ELSE IF RGt(odds, R(250, 100)) THEN FALSE
    ELSE TRUE

meets_criteria(probability, confidence, odds) ==
    IF RLt(probability, MIN_PROBABILITY) THEN FALSE
    ELSE IF RLt(confidence, MIN_CONFIDENCE) THEN FALSE
    ELSE IF RGt(odds, MAX_ODDS) THEN FALSE
    ELSE IF RLt(calculate_expected_value(probability, odds), MIN_EV) THEN FALSE
    ELSE TRUE

\* _calculate_kelly_stake without the lower clamp max(0.0, ...)
calculate_kelly_stake_no_floor(probability, odds) ==
    LET b == RSub(odds, One)
        p == probability
        q == RSub(One, p)
    IN  IF b.n = 0
        THEN R(1, 100)
        ELSE RMin(RMul(RDiv(RSub(RMul(b, p), q), b), R(25, 100)), R(10, 100))

calculate_kelly_stake(probability, odds) ==
    LET b == RSub(odds, One)
        p == probability
        q == RSub(One, p)
    IN  IF b.n = 0
        THEN R(1, 100)                      \* ZeroDivisionError -> except: 0.01
        ELSE LET kelly            == RDiv(RSub(RMul(b, p), q), b)
                 fractional_kelly == RMul(kelly, kelly_fraction)
             IN  RMax(Zero, RMin(fractional_kelly, R(10, 100)))

\* _classify_bet_quality with the edge term subtracted instead of added
classify_bet_quality_minus_edge(expected_value, confidence, edge) ==
    LET score == RSub(RAdd(RMul(expected_value, R(4, 10)),
                           RMul(RDiv(confidence, Int2R(100)), R(3, 10))),
                      RMul(edge, R(3, 10)))
    IN  IF RGe(score, R(25, 100)) /\ RGe(confidence, Int2R(80)) THEN "EXCELENTE"
        ELSE IF RGe(score, R(20, 100)) /\ RGe(confidence, Int2R(70)) THEN "MUITO BOA"
        ELSE IF RGe(score, R(15, 100)) /\ RGe(confidence, Int2R(60)) THEN "BOA"
        ELSE IF RGe(score, R(10, 100)) THEN "REGULAR"
        ELSE "FRACA"

classify_bet_quality(expected_value, confidence, edge) ==
    LET score == RAdd(RAdd(RMul(expected_value, R(4, 10)),
                           RMul(RDiv(confidence, Int2R(100)), R(3, 10))),
                      RMul(edge, R(3, 10)))
    IN  IF RGe(score, R(25, 100)) /\ RGe(confidence, Int2R(80)) THEN "EXCELENTE"
        ELSE IF RGe(score, R(20, 100)) /\ RGe(confidence, Int2R(70)) THEN "MUITO BOA"
        ELSE IF RGe(score, R(15, 100)) /\ RGe(confidence, Int2R(60)) THEN "BOA"
        ELSE IF RGe(score, R(10, 100)) THEN "REGULAR"
        ELSE "FRACA"

calculate_risk_level(probability, confidence, odds) ==
    LET r1 == IF RLt(probability, R(70, 100)) THEN 2
              ELSE IF RLt(probability, R(75, 100)) THEN 1 ELSE 0
        r2 == IF RLt(confidence, Int2R(70)) THEN 2
              ELSE IF RLt(confidence, Int2R(80)) THEN 1 ELSE 0
        r3 == IF RGt(odds, Int2R(2)) THEN 2
              ELSE IF RGt(odds, R(17, 10)) THEN 1 ELSE 0
        risk_score == r1 + r2 + r3
    IN  IF risk_score = 0 THEN "BAIXO"
        ELSE IF risk_score <= 2 THEN "MODERADO"
        ELSE IF risk_score <= 4 THEN "ALTO"
        ELSE "MUITO ALTO"

\* a = [probability, confidence, over_odds]; over_odds = None when the key
\* 'over_1_5_odds' is absent from odds_data.
analyze_match(a, tieUp) ==
    LET our_probability == a.probability
        confidence      == a.confidence
        over_odds       == a.over_odds
    IN  IF over_odds = None THEN None
        ELSE IF over_odds.n = 0 \/ RLt(over_odds, MIN_ODDS) THEN None
        ELSE IF ~meets_criteria(our_probability, confidence, over_odds) THEN None
        ELSE
          LET implied_probability == calculate_implied_probability(over_odds)
              edge           == RSub(our_probability, implied_probability)
              expected_value == calculate_expected_value(our_probability, over_odds)
              kelly_stake    == calculate_kelly_stake(our_probability, over_odds)
              bet_quality    == classify_bet_quality(expected_value, confidence, edge)
              risk_level     == calculate_risk_level(our_probability, confidence, over_odds)
          IN  [type                |-> "Opportunity",
               our_probability     |-> round(our_probability, 4, tieUp),
               implied_probability |-> round(implied_probability, 4, tieUp),
               confidence          |-> round(confidence, 2, tieUp),
               over_1_5_odds       |-> round(over_odds, 2, tieUp),
               edge                |-> round(edge, 4, tieUp),
               expected_value      |-> round(expected_value, 4, tieUp),
               kelly_stake         |-> round(kelly_stake, 2, tieUp),
               recommended_stake   |-> round(RMul(kelly_stake, Int2R(100)), 1, tieUp),
               bet_quality         |-> bet_quality,
               risk_level          |-> risk_level]

----------------------------------------------------------------------------
(* src/value_detector.py : class ValueDetector (the later, shorter revision) *)

src_meets_criteria(probability, confidence, odds) ==
    IF RLt(probability, MIN_PROBABILITY) THEN FALSE
    ELSE IF RLt(confidence, MIN_CONFIDENCE) THEN FALSE
    ELSE IF RGt(odds, MAX_ODDS) \/ RLt(odds, MIN_ODDS) THEN FALSE
    ELSE IF RLt(RSub(RMul(probability, odds), One), MIN_EV) THEN FALSE
    ELSE TRUE

src_calculate_kelly_stake(probability, odds) ==
    LET b == RSub(odds, One)
        p == probability
        q == RSub(One, p)
    IN  IF b.n = 0
        THEN R(1, 100)
        ELSE LET kelly            == RDiv(RSub(RMul(b, p), q), b)
                 fractional_kelly == RMul(kelly, kelly_fraction)
             IN  RMax(Zero, RMin(fractional_kelly, R(10, 100)))

src_classify_bet_quality(ev, confidence) ==
    LET score == RAdd(RMul(ev, R(6, 10)),
                      RMul(RDiv(confidence, Int2R(100)), R(4, 10)))
    IN  IF RGe(score, R(20, 100)) /\ RGe(confidence, Int2R(80)) THEN "EXCELENTE"
        ELSE IF RGe(score, R(15, 100)) /\ RGe(confidence, Int2R(70)) THEN "MUITO BOA"
        ELSE IF RGe(score, R(10, 100)) /\ RGe(confidence, Int2R(60)) THEN "BOA"
        ELSE "REGULAR"

src_calculate_risk_level(probability, confidence) ==
    LET r1 == IF RLt(probability, R(70, 100)) THEN 2 ELSE 0
        r2 == IF RLt(confidence, Int2R(70)) THEN 2 ELSE 0
        risk_score == r1 + r2
    IN  IF risk_score = 0 THEN "BAIXO"
        ELSE IF risk_score <= 2 THEN "MODERADO"
        ELSE "ALTO"

src_analyze_match(a, tieUp) ==
    LET our_probability == a.probability
        confidence      == a.confidence
        over_odds       == a.over_odds
    IN  IF over_odds = None THEN None
        ELSE IF over_odds.n = 0 \/ RLt(over_odds, MIN_ODDS) THEN None
        ELSE IF ~src_meets_criteria(our_probability, confidence, over_odds) THEN None
        ELSE
          LET implied_probability == RDiv(One, over_odds)
              edge           == RSub(our_probability, implied_probability)
              expected_value == RSub(RMul(our_probability, over_odds), One)
              kelly_stake    == src_calculate_kelly_stake(our_probability, over_odds)
              bet_quality    == src_classify_bet_quality(expected_value, confidence)
              risk_level     == src_calculate_risk_level(our_probability, confidence)
          IN  [type                |-> "Opportunity",
               our_probability     |-> round(our_probability, 4, tieUp),
               implied_probability |-> round(implied_probability, 4, tieUp),
               confidence          |-> round(confidence, 2, tieUp),
               over_1_5_odds       |-> round(over_odds, 2, tieUp),
               edge                |-> round(edge, 4, tieUp),
               expected_value      |-> round(expected_value, 4, tieUp),
               kelly_stake         |-> round(kelly_stake, 4, tieUp),
               recommended_stake   |-> round(RMul(kelly_stake, Int2R(100)), 1, tieUp),
               bet_quality         |-> bet_quality,
               risk_level          |-> risk_level]

----------------------------------------------------------------------------
(* scheduler.py : MockValueDetector.detect_value.  ValueDetector has no     *)
(* detect_value, so the scheduler runs with MockValueDetector               *)
(* (scheduler.py:164-165).                                                  *)

Raised == [type |-> "Exception"]

\* detect_value with is_value stuck at True: every priced market would take
\* the value branch of _analyze_fixture
detect_value_always_value(probability, market_odds) ==
    IF probability.n = 0 \/ market_odds = None THEN Raised
    ELSE
      LET expected_value == RSub(RMul(probability, market_odds), One)
          pure_kelly_fraction ==
              IF RGt(market_odds, One)
              THEN RDiv(expected_value, RSub(market_odds, One))
              ELSE Zero
      IN  [type                |-> "Detection",
           is_value            |-> TRUE,
           expected_value      |-> expected_value,
           fair_odd            |-> RDiv(One, probability),
           pure_kelly_fraction |-> pure_kelly_fraction,
           suggested_stake     |-> RMin(R(1, 10), RMax(Zero, pure_kelly_fraction))]

detect_value(probability, market_odds) ==
    IF probability.n = 0 THEN Raised            \* 1 / probability
    ELSE IF market_odds = None THEN Raised      \* probability * None
    ELSE
      LET fair_odd       == RDiv(One, probability)
          expected_value == RSub(RMul(probability, market_odds), One)
          is_value       == RGt(expected_value, R(5, 100))
          pure_kelly_fraction ==
              IF RGt(market_odds, One)
              THEN RDiv(expected_value, RSub(market_odds, One))
              ELSE Zero
          suggested_stake == RMin(R(1, 10), RMax(Zero, pure_kelly_fraction))
      IN  [type                |-> "Detection",
           is_value            |-> is_value,
           expected_value      |-> expected_value,
           fair_odd            |-> fair_odd,
           pure_kelly_fraction |-> pure_kelly_fraction,
           suggested_stake     |-> suggested_stake]

----------------------------------------------------------------------------
(* Inputs of the value detector.  Probabilities are given in thousandths,   *)
(* odds and confidences in hundredths; the sets hold every threshold of the *)
(* code, a value on each side of it, and values off the 4-decimal grid.     *)

ProbMilli == {-100, 0, 500, 600, 649, 650, 651, 699, 700, 701, 705, 749, 750,
              800, 888, 900, 1000}
ConfCenti == {0, 30, 59, 60, 100, 3000, 5000, 5900, 6000, 6500, 6900, 7000,
              7900, 8000, 8500, 10000}
OddsCenti == {0, 50, 100, 105, 109, 110, 120, 125, 140, 150, 153, 155, 160,
              170, 171, 200, 201, 205, 250, 251, 300}

Probabilities == {R(m, 1000) : m \in ProbMilli}
Confidences   == {R(c, 100) : c \in ConfCenti}
OddsValues    == {R(o, 100) : o \in OddsCenti}

NotCalled == [type |-> "NotCalled"]
NoArgs    == [type |-> "NoArgs"]

\* the parts of the state a specification does not use
IdleDetector == op = "init" /\ args = NoArgs /\ ret = NotCalled
IdleRanking  == opportunities = <<>> /\ ranked = <<>>
IdleBatch    ==
    pc = "idle" /\ idx = 0 /\ saved = <<>> /\ suggestions = <<>> /\ telegram = FALSE
EmptyDb      == [opportunities |-> {}, seq |-> 0, results |-> {}, performance |-> {}]
IdleStore    == db = EmptyDb
IdleService  ==
    /\ scheduler_lock = FALSE
    /\ threads = <<>>
    /\ requests = <<>>
    /\ now = 0
    /\ last_request_time = 0

----------------------------------------------------------------------------
(* Specification Spec: one call of a value-detector operation on           *)
(* (probability, confidence, over_odds).                                    *)

Init ==
    /\ op = "init"
    /\ args \in [probability : Probabilities,
                 confidence  : Confidences,
                 over_odds   : OddsValues \cup {None}]
    /\ ret = NotCalled
    /\ IdleRanking
    /\ IdleBatch
    /\ IdleStore
    /\ IdleService

AnalyzeMatch ==
    /\ op = "init"
    /\ \E tieUp \in BOOLEAN : ret' = analyze_match(args, tieUp)
    /\ op' = "analyze_match"
    /\ UNCHANGED <<args, opportunities, ranked, pc, idx, saved, suggestions, telegram, db, service>>

SrcAnalyzeMatch ==
    /\ op = "init"
    /\ \E tieUp \in BOOLEAN : ret' = src_analyze_match(args, tieUp)
    /\ op' = "src_analyze_match"
    /\ UNCHANGED <<args, opportunities, ranked, pc, idx, saved, suggestions, telegram, db, service>>

CalculateKellyStake ==
    /\ op = "init"
    /\ args.over_odds # None
    /\ ret' = calculate_kelly_stake(args.probability, args.over_odds)
    /\ op' = "calculate_kelly_stake"
    /\ UNCHANGED <<args, opportunities, ranked, pc, idx, saved, suggestions, telegram, db, service>>

SrcCalculateKellyStake ==
    /\ op = "init"
    /\ args.over_odds # None
    /\ ret' = src_calculate_kelly_stake(args.probability, args.over_odds)
    /\ op' = "src_calculate_kelly_stake"
    /\ UNCHANGED <<args, opportunities, ranked, pc, idx, saved, suggestions, telegram, db, service>>

CalculateRiskLevel ==
    /\ op = "init"
    /\ args.over_odds # None
    /\ ret' = calculate_risk_level(args.probability, args.confidence, args.over_odds)
    /\ op' = "calculate_risk_level"
    /\ UNCHANGED <<args, opportunities, ranked, pc, idx, saved, suggestions, telegram, db, service>>

SrcCalculateRiskLevel ==
    /\ op = "init"
    /\ args.over_odds # None
    /\ ret' = src_calculate_risk_level(args.probability, args.confidence)
    /\ op' = "src_calculate_risk_level"
    /\ UNCHANGED <<args, opportunities, ranked, pc, idx, saved, suggestions, telegram, db, service>>

\* MockValueDetector.detect_value called on its own; it has no try/except
DetectValue ==
    /\ op = "init"
    /\ ret' = detect_value(args.probability, args.over_odds)
    /\ op' = "detect_value"
    /\ UNCHANGED <<args, opportunities, ranked, pc, idx, saved, suggestions, telegram, db, service>>

Next ==
    \/ AnalyzeMatch
    \/ SrcAnalyzeMatch
    \/ CalculateKellyStake
    \/ SrcCalculateKellyStake
    \/ CalculateRiskLevel
    \/ SrcCalculateRiskLevel
    \/ DetectValue

Spec == Init /\ [][Next]_vars

----------------------------------------------------------------------------
(* Specification SpecQuality: one call of _classify_bet_quality on          *)
(* (expected_value, confidence, edge), each drawn independently.            *)

EVMilli    == {-20, 0, 50, 100, 125, 200, 280, 500, 820}    \* in thousandths
EdgeMilli  == {-100, 0, 50, 100, 175, 300}                  \* in thousandths

ExpectedValues == {R(e, 1000) : e \in EVMilli}
Edges          == {R(e, 1000) : e \in EdgeMilli}

InitQuality ==
    /\ op = "init"
    /\ args \in [expected_value : ExpectedValues,
                 confidence     : Confidences,
                 edge           : Edges]
    /\ ret = NotCalled
    /\ IdleRanking
    /\ IdleBatch
    /\ IdleStore
    /\ IdleService

ClassifyBetQuality ==
    /\ op = "init"
    /\ ret' = classify_bet_quality(args.expected_value, args.confidence, args.edge)
    /\ op' = "classify_bet_quality"
    /\ UNCHANGED <<args, opportunities, ranked, pc, idx, saved, suggestions, telegram, db, service>>

SrcClassifyBetQuality ==
    /\ op = "init"
    /\ ret' = src_classify_bet_quality(args.expected_value, args.confidence)
    /\ op' = "src_classify_bet_quality"
    /\ UNCHANGED <<args, opportunities, ranked, pc, idx, saved, suggestions, telegram, db, service>>

NextQuality ==
    \/ ClassifyBetQuality
    \/ SrcClassifyBetQuality

SpecQuality == InitQuality /\ [][NextQuality]_vars

----------------------------------------------------------------------------
(* Claims about the value detector                                          *)

AnalyzeOps == {"analyze_match", "src_analyze_match"}
KellyOps   == {"calculate_kelly_stake", "src_calculate_kelly_stake"}
RiskOps    == {"calculate_risk_level", "src_calculate_risk_level"}
QualityOps == {"classify_bet_quality", "src_classify_bet_quality"}

ExactEV(a) == RSub(RMul(a.probability, a.over_odds), One)

\* C1: analyze_match (both revisions) returns an Opportunity only when
\* probability >= 0.65, 1.10 <= odds <= 2.50 and probability*odds - 1 >= 0.05;
\* any input violating one of the three gets None.
C1_GateSound ==
    (op \in AnalyzeOps /\ ret # None) =>
        /\ args.over_odds # None
        /\ RGe(args.probability, R(65, 100))
        /\ RGe(args.over_odds, R(110, 100))
        /\ RLe(args.over_odds, R(250, 100))
        /\ RGe(ExactEV(args), R(5, 100))

\* C1 witness: the gate's corner (probability 0.65, odds 2.50) is accepted.
C1_Witness ==
    /\ op = "analyze_match"
    /\ ret # None
    /\ args.probability = R(65, 100)
    /\ args.over_odds = R(250, 100)

\* C2 (as claimed): no Opportunity is returned with confidence below 60 on the
\* 0-100 scale; stated for the confidences _calculate_confidence emits (50..100).
C2_ConfidenceGate60 ==
    (/\ op \in AnalyzeOps
     /\ ret # None
     /\ RGe(args.confidence, Int2R(50)) /\ RLe(args.confidence, Int2R(100)))
        => RGe(args.confidence, Int2R(60))

\* C4 (as claimed): the expected_value of the returned record equals
\* probability*odds - 1 exactly, for probability in [0,1] and odds > 1.
C4_ExactEVInRecord ==
    (/\ op \in AnalyzeOps
     /\ ret # None
     /\ RGe(args.probability, Zero) /\ RLe(args.probability, One)
     /\ RGt(args.over_odds, One))
        => ret.expected_value = ExactEV(args)

\* C4 (amended): the record's expected_value is probability*odds - 1 rounded
\* to four decimals: a multiple of 0.0001 within 0.00005 of the exact value.
C4_RoundedEVInRecord ==
    (/\ op \in AnalyzeOps
     /\ ret # None
     /\ RGe(args.probability, Zero) /\ RLe(args.probability, One)
     /\ RGt(args.over_odds, One))
        => /\ RMul(ret.expected_value, Int2R(10000)).d = 1
           /\ RLe(RAbs(RSub(ret.expected_value, ExactEV(args))), R(1, 20000))

\* C4 witness: an accepted match whose exact EV has more than four decimals.
C4_Witness ==
    /\ op = "analyze_match"
    /\ ret # None
    /\ ret.expected_value # ExactEV(args)

\* C5: for probability in [0,1] and odds > 1, _calculate_kelly_stake returns
\* 0 <= s <= 0.10, and s = 0 whenever probability*odds - 1 <= 0.
C5_KellyBounds ==
    (/\ op \in KellyOps
     /\ RGe(args.probability, Zero) /\ RLe(args.probability, One)
     /\ RGt(args.over_odds, One))
        => /\ RGe(ret, Zero)
           /\ RLe(ret, R(10, 100))
           /\ (RLe(ExactEV(args), Zero) => ret = Zero)

\* C5 witness: a negative-EV input (0.70 at 1.40) sized at exactly zero.
C5_Witness ==
    /\ op = "calculate_kelly_stake"
    /\ args.probability = R(70, 100)
    /\ args.over_odds = R(140, 100)
    /\ ret = Zero

QualityRank(t) ==
    CASE t = "FRACA"     -> 0
      [] t = "REGULAR"   -> 1
      [] t = "BOA"       -> 2
      [] t = "MUITO BOA" -> 3
      [] t = "EXCELENTE" -> 4

QualityOf(o, ev, conf, edge) ==
    IF o = "classify_bet_quality"
    THEN classify_bet_quality(ev, conf, edge)
    ELSE src_classify_bet_quality(ev, conf)

\* C7: the quality tier is monotonic: raising expected value, confidence or
\* edge alone never lowers the tier; 0.80 at odds 1.60 (EV 0.28, edge 0.175)
\* with confidence >= 80 is EXCELENTE.
C7_QualityMonotone ==
    op \in QualityOps =>
        /\ \A e2 \in ExpectedValues : RGe(e2, args.expected_value) =>
               QualityRank(QualityOf(op, e2, args.confidence, args.edge))
                   >= QualityRank(ret)
        /\ \A c2 \in Confidences : RGe(c2, args.confidence) =>
               QualityRank(QualityOf(op, args.expected_value, c2, args.edge))
                   >= QualityRank(ret)
        /\ \A d2 \in Edges : RGe(d2, args.edge) =>
               QualityRank(QualityOf(op, args.expected_value, args.confidence, d2))
                   >= QualityRank(ret)
        /\ (/\ args.expected_value = R(28, 100)
            /\ args.edge = R(175, 1000)
            /\ RGe(args.confidence, Int2R(80))) => ret = "EXCELENTE"

\* C7 witness: the scenario 0.80 at 1.60 with confidence 80 classified.
C7_Witness ==
    /\ op = "classify_bet_quality"
    /\ args.expected_value = R(28, 100)
    /\ args.edge = R(175, 1000)
    /\ args.confidence = Int2R(80)
    /\ ret = "EXCELENTE"

RiskRank(t) ==
    CASE t = "BAIXO"      -> 0
      [] t = "MODERADO"   -> 1
      [] t = "ALTO"       -> 2
      [] t = "MUITO ALTO" -> 3

RiskOf(o, p, conf, odds) ==
    IF o = "calculate_risk_level"
    THEN calculate_risk_level(p, conf, odds)
    ELSE src_calculate_risk_level(p, conf)

RiskThreeRules(o) ==
    /\ ret \in {"BAIXO", "MODERADO", "ALTO", "MUITO ALTO"}
    /\ \A p2 \in Probabilities : RLe(p2, args.probability) =>
           RiskRank(RiskOf(o, p2, args.confidence, args.over_odds)) >= RiskRank(ret)
    /\ \A c2 \in Confidences : RLe(c2, args.confidence) =>
           RiskRank(RiskOf(o, args.probability, c2, args.over_odds)) >= RiskRank(ret)
    /\ \A o2 \in OddsValues : RGe(o2, args.over_odds) =>
           RiskRank(RiskOf(o, args.probability, args.confidence, o2)) >= RiskRank(ret)
    /\ \E p2 \in Probabilities :
           RiskOf(o, p2, args.confidence, args.over_odds) # ret
    /\ \E c2 \in Confidences :
           RiskOf(o, args.probability, c2, args.over_odds) # ret
    /\ \E o2 \in OddsValues :
           RiskOf(o, args.probability, args.confidence, o2) # ret

\* C8 (as claimed): _calculate_risk_level (both revisions) has three penalty
\* rules (probability, confidence, odds), yields one of four ordered tiers,
\* never lowers the tier when probability falls, confidence falls or odds rise,
\* and each of the three inputs can change the tier on its own.
C8_RiskThreeRules ==
    (/\ op \in RiskOps
     /\ RGe(args.probability, Zero) /\ RLe(args.probability, One)
     /\ RGe(args.confidence, Int2R(50)) /\ RLe(args.confidence, Int2R(100))
     /\ RGt(args.over_odds, One))
        => RiskThreeRules(op)

\* The same statement restricted to football_value_detector's revision.
RiskThreeRulesFvd ==
    op = "calculate_risk_level" => RiskThreeRules(op)

----------------------------------------------------------------------------
(* Ranking: ValueDetector.rank_opportunities (both revisions, same code),   *)
(* MockValueDetector.rank_opportunities (scheduler.py) and the runner's     *)
(* in-place sort.  Python's sorted / list.sort are stable, also with        *)
(* reverse=True: elements whose keys compare equal keep their input order.  *)

\* strict "sorts before" of each pipeline's key
ScoreOf(x) == IF x.ranking_score = None THEN Zero ELSE x.ranking_score

Precedes(mode, x, y) ==
    CASE mode = "ranking_score" -> RGt(ScoreOf(x), ScoreOf(y))
      [] mode = "ev_then_conf"  ->
            \/ RGt(x.expected_value, y.expected_value)
            \/ /\ x.expected_value = y.expected_value
               /\ RGt(x.confidence, y.confidence)
      [] mode = "ev"            -> RGt(x.expected_value, y.expected_value)

\* the index at which x enters the sorted prefix s: before the first element
\* it strictly precedes, else at the end
InsertAt(mode, s, x) ==
    LET before == {i \in 1..Len(s) : Precedes(mode, x, s[i])}
    IN  IF before = {} THEN Len(s) + 1
        ELSE CHOOSE i \in before : \A k \in before : i <= k

Insert(mode, s, x) ==
    LET k == InsertAt(mode, s, x)
    IN  SubSeq(s, 1, k - 1) \o <<x>> \o SubSeq(s, k, Len(s))

RECURSIVE StableSort(_, _, _)
StableSort(mode, done, todo) ==
    IF todo = <<>> THEN done
    ELSE StableSort(mode, Insert(mode, done, Head(todo)), Tail(todo))

sorted(mode, seq) == StableSort(mode, <<>>, seq)

Reverse(seq) == [i \in 1..Len(seq) |-> seq[Len(seq) + 1 - i]]

\* the loop that writes opp['ranking_score'] into each dict of the argument
add_ranking_scores(opps) ==
    [i \in 1..Len(opps) |->
        [opps[i] EXCEPT !.ranking_score =
            RMul(opps[i].expected_value, RDiv(opps[i].confidence, Int2R(100)))]]

\* rank_opportunities as sorted(..., key=score)[::-1] would have it: descending,
\* but with equal keys in reverse input order
rank_opportunities_reversed(opps) ==
    IF opps = <<>> THEN <<>>
    ELSE LET scored == add_ranking_scores(opps)
         IN  StableSort("ranking_score", <<>>, Reverse(scored))

rank_opportunities(opps) ==
    IF opps = <<>> THEN <<>>
    ELSE sorted("ranking_score", add_ranking_scores(opps))

src_rank_opportunities(opps) ==
    IF opps = <<>> THEN <<>>
    ELSE sorted("ranking_score", add_ranking_scores(opps))

mock_rank_opportunities(opps) ==
    IF opps = <<>> THEN <<>>
    ELSE sorted("ev_then_conf", opps)

runner_sort(opps) == sorted("ev", opps)

----------------------------------------------------------------------------
(* Specification SpecRank: one ranking call on a list of at most MaxOpps    *)
(* opportunity dicts; match_id is the dict's position in the input.         *)

MaxOpps == 3

Stub(ev100, conf, kickoff) ==
    [expected_value |-> R(ev100, 100), confidence |-> Int2R(conf),
     match_date |-> kickoff, ranking_score |-> None]

RankStubs ==
    { Stub(10, 60, 2),     \* key 0.06
      Stub(6, 100, 1),     \* key 0.06, lower EV
      Stub(10, 60, 1),     \* key 0.06, same EV, earlier kickoff
      Stub(8, 91, 1),      \* key 0.0728 (scheduler: 0.90 at 1.20)
      Stub(10, 55, 1),     \* key 0.055  (scheduler: 0.50 at 2.20)
      Stub(28, 80, 1) }    \* key 0.224

Tagged(seq) ==
    [i \in 1..Len(seq) |->
        [match_id |-> i, expected_value |-> seq[i].expected_value,
         confidence |-> seq[i].confidence, match_date |-> seq[i].match_date,
         ranking_score |-> seq[i].ranking_score]]

OppLists == UNION {[1..n -> RankStubs] : n \in 0..MaxOpps}

InitRank ==
    /\ op = "init"
    /\ args = NoArgs
    /\ ret = NotCalled
    /\ \E s \in OppLists : opportunities = Tagged(s)
    /\ ranked = <<>>
    /\ IdleBatch
    /\ IdleStore
    /\ IdleService

\* args keeps the caller's list as it was when the call was made; the loop
\* of rank_opportunities writes into the caller's dicts before sorting
RankOpportunities ==
    /\ op = "init"
    /\ args' = [opportunities |-> opportunities]
    /\ ranked' = rank_opportunities(opportunities)
    /\ opportunities' = add_ranking_scores(opportunities)
    /\ op' = "rank_opportunities"
    /\ UNCHANGED <<ret, pc, idx, saved, suggestions, telegram, db, service>>

SrcRankOpportunities ==
    /\ op = "init"
    /\ args' = [opportunities |-> opportunities]
    /\ ranked' = src_rank_opportunities(opportunities)
    /\ opportunities' = add_ranking_scores(opportunities)
    /\ op' = "src_rank_opportunities"
    /\ UNCHANGED <<ret, pc, idx, saved, suggestions, telegram, db, service>>

\* a second call, on the list the first call returned: the dicts of that list
\* are the caller's dicts, whose ranking_score is written again
RankOpportunitiesAgain ==
    /\ op = "rank_opportunities"
    /\ ret' = rank_opportunities(ranked)
    /\ ranked' = add_ranking_scores(ranked)
    /\ opportunities' = add_ranking_scores(opportunities)
    /\ op' = "rank_opportunities_again"
    /\ UNCHANGED <<args, pc, idx, saved, suggestions, telegram, db, service>>

SrcRankOpportunitiesAgain ==
    /\ op = "src_rank_opportunities"
    /\ ret' = src_rank_opportunities(ranked)
    /\ ranked' = add_ranking_scores(ranked)
    /\ opportunities' = add_ranking_scores(opportunities)
    /\ op' = "src_rank_opportunities_again"
    /\ UNCHANGED <<args, pc, idx, saved, suggestions, telegram, db, service>>

MockRankOpportunities ==
    /\ op = "init"
    /\ ranked' = mock_rank_opportunities(opportunities)
    /\ op' = "mock_rank_opportunities"
    /\ UNCHANGED <<args, ret, opportunities, pc, idx, saved, suggestions, telegram, db, service>>

\* opportunities.sort(...) sorts the runner's list in place
RunnerSort ==
    /\ op = "init"
    /\ opportunities' = runner_sort(opportunities)
    /\ ranked' = runner_sort(opportunities)
    /\ op' = "runner_sort"
    /\ UNCHANGED <<args, ret, pc, idx, saved, suggestions, telegram, db, service>>

NextRank ==
    \/ RankOpportunities
    \/ SrcRankOpportunities
    \/ RankOpportunitiesAgain
    \/ SrcRankOpportunitiesAgain
    \/ MockRankOpportunities
    \/ RunnerSort

SpecRank == InitRank /\ [][NextRank]_vars

----------------------------------------------------------------------------
(* Claims about ranking                                                     *)

RankOps    == {"rank_opportunities", "src_rank_opportunities"}
AllRankOps == RankOps \cup {"mock_rank_opportunities", "runner_sort"}

RankingKey(x) == RMul(x.expected_value, RDiv(x.confidence, Int2R(100)))

Ids(seq) == {seq[i].match_id : i \in 1..Len(seq)}

\* C9 (as claimed): in every pipeline the ranked list is a permutation of
\* the input with expected_value * (confidence / 100) non-increasing along it.
C9_RankedByKeyDescending ==
    op \in AllRankOps =>
        /\ Len(ranked) = Len(opportunities)
        /\ Ids(ranked) = Ids(opportunities)
        /\ \A i \in 1..Len(ranked) - 1 :
               RGe(RankingKey(ranked[i]), RankingKey(ranked[i + 1]))

\* The same statement for ValueDetector.rank_opportunities alone.
RankedByKeyDescendingValueDetector ==
    op \in RankOps =>
        /\ Len(ranked) = Len(opportunities)
        /\ Ids(ranked) = Ids(opportunities)
        /\ \A i \in 1..Len(ranked) - 1 :
               RGe(RankingKey(ranked[i]), RankingKey(ranked[i + 1]))

\* C10 (as claimed): among opportunities with equal ranking key the higher
\* expected_value comes first, and with equal expected_value the earlier
\* kickoff comes first.
C10_TieBreakByEVThenKickoff ==
    op \in RankOps =>
        \A i, j \in 1..Len(ranked) :
            (i < j /\ RankingKey(ranked[i]) = RankingKey(ranked[j])) =>
                \/ RGt(ranked[i].expected_value, ranked[j].expected_value)
                \/ /\ ranked[i].expected_value = ranked[j].expected_value
                   /\ ranked[i].match_date <= ranked[j].match_date

\* C10 (amended): opportunities with equal ranking key come out in the order
\* they had in the input (match_id is the input position); neither
\* expected_value nor kickoff time breaks the tie.
C10_TiesKeepInputOrder ==
    op \in RankOps =>
        \A i, j \in 1..Len(ranked) :
            (i < j /\ RankingKey(ranked[i]) = RankingKey(ranked[j])) =>
                ranked[i].match_id < ranked[j].match_id

\* C10 witness: a tie in which the lower expected_value is ranked first,
\* because it came first in the input.
C10_Witness ==
    /\ op = "rank_opportunities"
    /\ \E i, j \in 1..Len(ranked) :
           /\ i < j
           /\ RankingKey(ranked[i]) = RankingKey(ranked[j])
           /\ RLt(ranked[i].expected_value, ranked[j].expected_value)

RerankOps == {"rank_opportunities_again", "src_rank_opportunities_again"}

\* C11: ranking is stable and idempotent.  A second rank_opportunities call,
\* made on the list the first call returned, returns that list in the same
\* order, and in it opportunities with equal ranking key still stand in
\* their input order (match_id is the input position).
C11_StableAndIdempotent ==
    op \in RerankOps =>
        /\ ret = ranked
        /\ \A i, j \in 1..Len(ret) :
               (i < j /\ RankingKey(ret[i]) = RankingKey(ret[j])) =>
                   ret[i].match_id < ret[j].match_id

\* C11 witness: the first call reordered the input, the list holds a tie,
\* and the second call has returned.
C11_Witness ==
    /\ op = "rank_opportunities_again"
    /\ \E i \in 1..Len(ranked) : ranked[i].match_id # i
    /\ \E i, j \in 1..Len(ret) :
           i < j /\ RankingKey(ret[i]) = RankingKey(ret[j])

\* C12 (as claimed): after rank_opportunities the caller's list has the same
\* order and every dict in it has exactly the fields and values it had
\* before the call.
C12_ArgumentUnchanged ==
    op \in RankOps => opportunities = args.opportunities

----------------------------------------------------------------------------
(* scheduler.py : Scheduler._analyze_fixture and                            *)
(* Scheduler.analyze_daily_matches, which call detect_value (above).        *)

\* One pass of the loop over markets_to_analyze.  acc = [opps, sugg, failed];
\* m = [probability, odds]: what calculate_probability returned for the market
\* (Raised when it threw) and the price get_odds gave (None when absent).
analyze_market(acc, fixture_id, market_name, m, tg) ==
    IF acc.failed \/ m.odds = None \/ (m.odds # None /\ m.odds.n = 0) THEN acc
    ELSE IF m.probability = Raised THEN [acc EXCEPT !.failed = TRUE]
    ELSE
      LET our_probability  == m.probability
          market_odds      == m.odds
          confidence_score == RAdd(RMul(our_probability, R(9, 10)), R(1, 10))
          detection_result == detect_value(our_probability, market_odds)
      IN  IF detection_result = Raised THEN [acc EXCEPT !.failed = TRUE]
          ELSE IF detection_result.is_value
          THEN [acc EXCEPT !.opps = Append(@,
                   [match_id            |-> fixture_id,
                    market              |-> market_name,
                    our_probability     |-> our_probability,
                    market_odds         |-> market_odds,
                    implied_probability |-> RDiv(One, market_odds),
                    expected_value      |-> detection_result.expected_value,
                    recommended_stake   |->
                        RMul(detection_result.suggested_stake, Int2R(100)),
                    pure_kelly_fraction |->
                        RMul(detection_result.pure_kelly_fraction, Int2R(100)),
                    bet_quality         |-> "High",
                    risk_level          |-> "Medium",
                    confidence          |-> RMul(confidence_score, Int2R(100))])]
          ELSE IF /\ RGe(detection_result.fair_odd, R(130, 100))
                  /\ RLt(detection_result.expected_value, Zero)
                  /\ tg
          THEN [acc EXCEPT !.sugg = Append(@,
                   [match_id    |-> fixture_id,
                    market      |-> market_name,
                    market_odds |-> market_odds,
                    fair_odd    |-> detection_result.fair_odd])]
          ELSE acc

\* fx = [id, data_ok, over_0_5, over_1_5]: the fixture id, whether both
\* collect_team_data calls returned data, and the two markets' inputs.
\* Returns the opportunity list and the suggestions sent on the way; an
\* exception anywhere returns [] but does not unsend a suggestion.
analyze_fixture(fx, tg) ==
    IF ~fx.data_ok THEN [opps |-> <<>>, sugg |-> <<>>]
    ELSE
      LET a0 == [opps |-> <<>>, sugg |-> <<>>, failed |-> FALSE]
          a1 == analyze_market(a0, fx.id, "Over 0.5", fx.over_0_5, tg)
          a2 == analyze_market(a1, fx.id, "Over 1.5", fx.over_1_5, tg)
      IN  [opps |-> IF a2.failed THEN <<>> ELSE a2.opps, sugg |-> a2.sugg]

----------------------------------------------------------------------------
(* Specification SpecSched: one run of analyze_daily_matches over its two   *)
(* fixtures, the collaborators' answers drawn from the cases below.         *)

FixtureIds == <<1386749, 1386750>>
NumFixtures == Len(FixtureIds)

Market(p1000, o100) == [probability |-> R(p1000, 1000), odds |-> R(o100, 100)]
AbsentMarket == [probability |-> R(700, 1000), odds |-> None]

Over15Cases ==
    { Market(700, 160),     \* EV 0.12: value; full Kelly 0.20
      Market(500, 220),     \* EV 0.10: value at probability 0.50, confidence 55
      Market(900, 120),     \* EV 0.08: value; confidence 91
      Market(888, 205),     \* the mock fixture 1386749
      Market(700, 150),     \* EV 0.05 exactly
      Market(700, 140),     \* EV -0.02, fair odd 1.43
      Market(985, 105),     \* EV 0.034, fair odd 1.02
      Market(0, 160),       \* probability 0.0
      [probability |-> Raised, odds |-> R(160, 100)],
      AbsentMarket }

Over05Cases ==
    { AbsentMarket,
      Market(985, 105),
      Market(985, 110),     \* the mock fixture 1386750: EV 0.0835
      Market(700, 140),
      [probability |-> Raised, odds |-> R(105, 100)] }

InitSched ==
    /\ IdleDetector
    /\ IdleRanking
    /\ pc = "idle"
    /\ idx = 0
    /\ saved = <<>>
    /\ suggestions = <<>>
    /\ telegram \in BOOLEAN
    /\ IdleStore
    /\ IdleService

\* one iteration of the for loop of analyze_daily_matches
AnalyzeFixture ==
    /\ pc \in {"idle", "loop"}
    /\ idx < NumFixtures
    /\ \E ok \in BOOLEAN, m05 \in Over05Cases, m15 \in Over15Cases :
         LET fx == [id |-> FixtureIds[idx + 1], data_ok |-> ok,
                    over_0_5 |-> m05, over_1_5 |-> m15]
             r  == analyze_fixture(fx, telegram)
         IN  /\ opportunities' = opportunities \o r.opps
             /\ saved' = saved \o r.opps
             /\ suggestions' = suggestions \o r.sugg
    /\ idx' = idx + 1
    /\ pc' = "loop"
    /\ UNCHANGED <<op, args, ret, ranked, telegram, db, service>>

\* after the loop: rank what was found
FinishAnalysis ==
    /\ pc \in {"idle", "loop"}
    /\ idx = NumFixtures
    /\ ranked' = IF opportunities # <<>>
                 THEN mock_rank_opportunities(opportunities) ELSE <<>>
    /\ pc' = "done"
    /\ UNCHANGED <<op, args, ret, opportunities, idx, saved, suggestions, telegram, db, service>>

NextSched ==
    \/ AnalyzeFixture
    \/ FinishAnalysis

SpecSched == InitSched /\ [][NextSched]_vars

----------------------------------------------------------------------------
(* Claims about the scheduler's path                                        *)

KellyClamp(p, odds) ==
    LET b == RSub(odds, One)
        q == RSub(One, p)
        f == RDiv(RSub(RMul(b, p), q), b)
    IN  RMax(Zero, RMin(RMul(R(25, 100), f), R(10, 100)))

\* C3 (as claimed): every opportunity analyze_daily_matches passes to
\* save_opportunity satisfies the whole gate: probability >= 0.65,
\* confidence >= 60, 1.10 <= odds <= 2.50 and expected value >= 0.05.
C3_SavedPassGate ==
    \A i \in 1..Len(saved) :
        /\ RGe(saved[i].our_probability, R(65, 100))
        /\ RGe(saved[i].confidence, Int2R(60))
        /\ RGe(saved[i].market_odds, R(110, 100))
        /\ RLe(saved[i].market_odds, R(250, 100))
        /\ RGe(saved[i].expected_value, R(5, 100))

\* C6 (as claimed): on every path that produces an Opportunity the
\* recommended stake is clamp(0.25 * ((b*p - q) / b), 0, 0.10): for a saved
\* scheduler opportunity (stake in percent) and for analyze_match's record
\* (kelly_stake, shown to two decimals in one revision, four in the other).
C6_StakeIsQuarterKelly ==
    /\ \A i \in 1..Len(saved) :
           saved[i].recommended_stake =
               RMul(KellyClamp(saved[i].our_probability, saved[i].market_odds),
                    Int2R(100))
    /\ (op \in AnalyzeOps /\ ret # None) =>
           RLe(RAbs(RSub(ret.kelly_stake,
                         KellyClamp(args.probability, args.over_odds))),
               R(5, 1000))

\* C14: a market whose detection result is not value never reaches the list
\* _analyze_fixture returns nor save_opportunity.  Everything saved is
\* exactly what the fixtures returned, each saved record has the expected
\* value above 0.05 that made it value, and a market that got a fair-odds
\* suggestion (negative expected value) has no saved record.
C14_SuggestionNeverPersisted ==
    /\ saved = opportunities
    /\ \A i \in 1..Len(saved) :
           /\ saved[i].expected_value =
                  RSub(RMul(saved[i].our_probability, saved[i].market_odds), One)
           /\ RGt(saved[i].expected_value, R(5, 100))
    /\ \A k \in 1..Len(suggestions) :
           /\ RLt(RDiv(suggestions[k].market_odds, suggestions[k].fair_odd), One)
           /\ \A i \in 1..Len(saved) :
                  ~(/\ saved[i].match_id = suggestions[k].match_id
                    /\ saved[i].market = suggestions[k].market)

\* C14 witness: the run is over, and one fixture produced both a suggestion
\* for one market and a saved opportunity for its other market.
C14_Witness ==
    /\ pc = "done"
    /\ \E k \in 1..Len(suggestions), i \in 1..Len(saved) :
           /\ saved[i].match_id = suggestions[k].match_id
           /\ saved[i].market # suggestions[k].market

----------------------------------------------------------------------------
(* Claims about invalid numeric input                                       *)

InvalidInput(a) ==
    \/ a.over_odds = None
    \/ a.over_odds # None /\ RLe(a.over_odds, One)
    \/ RLt(a.probability, Zero)

\* C15 (as claimed): for decimal odds <= 1.0 (1.0 and 0 included), missing
\* odds or a negative probability, analyze_match returns None and
\* detect_value returns a result that is not value, and neither raises.
C15_InvalidInputNoOpportunityNoException ==
    /\ (op \in AnalyzeOps /\ InvalidInput(args)) => ret = None
    /\ (op = "detect_value" /\ InvalidInput(args)) =>
           (ret # Raised /\ ~ret.is_value)

\* The part that holds: analyze_match of both revisions on any invalid
\* input, and detect_value whenever the odds are a number and the
\* probability is not 0.
InvalidInputRejectedWhereHandled ==
    /\ (op \in AnalyzeOps /\ InvalidInput(args)) => ret = None
    /\ (op = "detect_value" /\ InvalidInput(args)
           /\ args.over_odds # None /\ args.probability # Zero) =>
           (ret # Raised /\ ~ret.is_value)

----------------------------------------------------------------------------
(* Storage: table opportunities of database.py.  Both revisions create it   *)
(* with id INTEGER PRIMARY KEY AUTOINCREMENT and UNIQUE(match_id), and      *)
(* write it with INSERT OR REPLACE.  A row keeps the columns the claims     *)
(* look at; analyzed_at tells the saves of one match apart.  The table has  *)
(* no column for the market: the dict's 'market' entry is not stored.       *)

\* INSERT OR REPLACE: rows that conflict on UNIQUE(match_id) are deleted,
\* then the new row is inserted under the next AUTOINCREMENT id
insert_or_replace(d, opp) ==
    [d EXCEPT
        !.opportunities =
            {r \in d.opportunities : r.match_id # opp.match_id}
              \cup {[id |-> d.seq + 1, match_id |-> opp.match_id,
                     analyzed_at |-> opp.analyzed_at]},
        !.seq = d.seq + 1]

\* football_value_detector/src/database.py: a missing key raises KeyError (and
\* a None value violates NOT NULL) inside the try, which returns False
save_opportunity(d, opp) ==
    IF opp.complete
    THEN [db |-> insert_or_replace(d, opp), ret |-> TRUE]
    ELSE [db |-> d, ret |-> FALSE]

\* src/database.py: the required keys are checked first
src_save_opportunity(d, opp) ==
    IF ~opp.complete
    THEN [db |-> d, ret |-> FALSE]
    ELSE [db |-> insert_or_replace(d, opp), ret |-> TRUE]

----------------------------------------------------------------------------
(* Specification SpecDb: up to MaxSaves calls of save_opportunity.  Each    *)
(* call carries a fresh analyzed_at (the number of the call).               *)

MaxSaves == 3

Markets == {"Over 0.5", "Over 1.5"}

MatchIds == {FixtureIds[i] : i \in 1..Len(FixtureIds)}

SaveArgs ==
    {[match_id |-> m, market |-> k, complete |-> c, analyzed_at |-> Len(saved) + 1] :
        m \in MatchIds, k \in Markets, c \in BOOLEAN}

InitDb ==
    /\ IdleDetector
    /\ IdleRanking
    /\ IdleBatch
    /\ IdleStore
    /\ IdleService

SaveOpportunity ==
    /\ Len(saved) < MaxSaves
    /\ \E opp \in SaveArgs :
          /\ args' = opp
          /\ ret' = save_opportunity(db, opp).ret
          /\ db' = save_opportunity(db, opp).db
          /\ saved' = Append(saved, opp)
    /\ op' = "save_opportunity"
    /\ UNCHANGED <<opportunities, ranked, pc, idx, suggestions, telegram, service>>

SrcSaveOpportunity ==
    /\ Len(saved) < MaxSaves
    /\ \E opp \in SaveArgs :
          /\ args' = opp
          /\ ret' = src_save_opportunity(db, opp).ret
          /\ db' = src_save_opportunity(db, opp).db
          /\ saved' = Append(saved, opp)
    /\ op' = "src_save_opportunity"
    /\ UNCHANGED <<opportunities, ranked, pc, idx, suggestions, telegram, service>>

NextDb ==
    \/ SaveOpportunity
    \/ SrcSaveOpportunity

SpecDb == InitDb /\ [][NextDb]_vars

----------------------------------------------------------------------------
(* Claims about storage                                                     *)

\* the calls that stored a row, and the last such call for a key
StoredCalls == {i \in 1..Len(saved) : saved[i].complete}

LastCallOfPair(m, k) ==
    LET calls == {i \in StoredCalls : saved[i].match_id = m /\ saved[i].market = k}
    IN  CHOOSE i \in calls : \A j \in calls : j <= i

LastCallOfMatch(m) ==
    LET calls == {i \in StoredCalls : saved[i].match_id = m}
    IN  CHOOSE i \in calls : \A j \in calls : j <= i

SavedPairs == {<<saved[i].match_id, saved[i].market>> : i \in StoredCalls}

\* C13 (as claimed): the table holds exactly one row per saved
\* (match_id, market) pair, and it is the row of the most recent save of
\* that pair; an Over 0.5 and an Over 1.5 save of one match are both kept.
C13_OneRowPerMatchAndMarket ==
    /\ Cardinality(db.opportunities) = Cardinality(SavedPairs)
    /\ \A pr \in SavedPairs :
           \E r \in db.opportunities :
               /\ r.match_id = pr[1]
               /\ r.analyzed_at = LastCallOfPair(pr[1], pr[2])

\* What the schema gives instead: one row per saved match_id, the row of the
\* most recent save of that match whatever its market.
OneRowPerMatch ==
    /\ Cardinality(db.opportunities) =
          Cardinality({saved[i].match_id : i \in StoredCalls})
    /\ \A i \in StoredCalls :
           \E r \in db.opportunities :
               /\ r.match_id = saved[i].match_id
               /\ r.analyzed_at = LastCallOfMatch(saved[i].match_id)

----------------------------------------------------------------------------
(* Batch loops of the other two pipelines: main of src/src/runner.py and    *)
(* Analyzer.run_daily_analysis of src/analyzer.py (its loop over the        *)
(* fixtures of the date it found).  A fixture is described by what its      *)
(* processing meets: which fields the dict has, what the fetches return     *)
(* and what the calculator answers for each goal line.                      *)

Fx(has_ids, has_date, date_past, has_names, data_ok, odds_ok, m05, m15) ==
    [has_ids |-> has_ids, has_date |-> has_date, date_past |-> date_past,
     has_names |-> has_names, data_ok |-> data_ok, odds_ok |-> odds_ok,
     over_0_5 |-> m05, over_1_5 |-> m15]

\* BettingCalculator.calculate_expected_value (probability_calculator.py of
\* the runner's directory is not in the repository)
betting_expected_value(prob, market_odds) == RSub(RMul(prob, market_odds), One)

\* one pass of `for goal_line in [0.5, 1.5]`; acc = [opps, raised]
runner_goal_line(acc, team, goal_line, m, odds_ok) ==
    IF acc.raised THEN acc
    ELSE IF m.probability = Raised THEN [acc EXCEPT !.raised = TRUE]
    ELSE
      LET market_odds == IF odds_ok THEN m.odds ELSE None
      IN  IF market_odds = None THEN acc
          ELSE IF market_odds.n = 0 \/ RLe(market_odds, One) THEN acc
          ELSE
            LET ev == betting_expected_value(m.probability, market_odds)
            IN  IF RGt(ev, R(5, 100))
                THEN [acc EXCEPT !.opps = Append(@,
                         [match_id |-> team, market |-> goal_line,
                          prob |-> m.probability, odds |-> market_odds,
                          expected_value |-> ev])]
                ELSE acc

\* the body of the runner's loop for one fixture: "continue", "ok" or "raise"
\* (an exception that leaves main), and the opportunities appended
runner_fixture(fx, team) ==
    IF ~fx.has_ids THEN [status |-> "continue", opps |-> <<>>]
    ELSE IF ~fx.has_date THEN [status |-> "raise", opps |-> <<>>]
    ELSE IF fx.date_past THEN [status |-> "continue", opps |-> <<>>]
    ELSE IF ~fx.has_names THEN [status |-> "raise", opps |-> <<>>]
    ELSE IF ~fx.data_ok THEN [status |-> "continue", opps |-> <<>>]
    ELSE
      LET a0 == [opps |-> <<>>, raised |-> FALSE]
          a1 == runner_goal_line(a0, team, "Over 0.5", fx.over_0_5, fx.odds_ok)
          a2 == runner_goal_line(a1, team, "Over 1.5", fx.over_1_5, fx.odds_ok)
      IN  [status |-> IF a2.raised THEN "raise" ELSE "ok", opps |-> a2.opps]

\* ODDS_THRESHOLD default of run_daily_analysis
ODDS_THRESHOLD == R(120, 100)

\* the body of the analyzer's loop for one fixture: everything is inside
\* try/except -> continue; the opportunity carries the Over 1.5 price only
analyzer_fixture(fx, fixture_id) ==
    IF ~fx.has_ids THEN <<>>
    ELSE IF ~fx.odds_ok THEN <<>>
    ELSE IF fx.over_1_5.odds = None THEN <<>>
    ELSE IF fx.over_1_5.odds.n = 0 THEN <<>>
    ELSE IF RLt(fx.over_1_5.odds, ODDS_THRESHOLD) THEN <<>>
    ELSE <<[match_id |-> fixture_id, market |-> "Over 1.5",
            odds |-> fx.over_1_5.odds]>>

----------------------------------------------------------------------------
(* Specification SpecBatch: one run of the runner's main or of              *)
(* run_daily_analysis over a list of at most MaxFixtures fixtures.          *)

MaxFixtures == 3

GoodFx == Fx(TRUE, TRUE, FALSE, TRUE, TRUE, TRUE, AbsentMarket, Market(700, 160))

FixtureCases ==
    { GoodFx,
      Fx(TRUE, TRUE, FALSE, TRUE, TRUE, TRUE, Market(985, 110), Market(700, 140)),
      Fx(FALSE, TRUE, FALSE, TRUE, TRUE, TRUE, AbsentMarket, Market(700, 160)),
      Fx(TRUE, FALSE, FALSE, TRUE, TRUE, TRUE, AbsentMarket, Market(700, 160)),
      Fx(TRUE, TRUE, TRUE, TRUE, TRUE, TRUE, AbsentMarket, Market(700, 160)),
      Fx(TRUE, TRUE, FALSE, FALSE, TRUE, TRUE, AbsentMarket, Market(700, 160)),
      Fx(TRUE, TRUE, FALSE, TRUE, FALSE, TRUE, AbsentMarket, Market(700, 160)),
      Fx(TRUE, TRUE, FALSE, TRUE, TRUE, FALSE, AbsentMarket, Market(700, 160)),
      Fx(TRUE, TRUE, FALSE, TRUE, TRUE, TRUE, AbsentMarket,
         [probability |-> Raised, odds |-> R(160, 100)]) }

FixtureLists == UNION {[1..n -> FixtureCases] : n \in 0..MaxFixtures}

InitBatch ==
    /\ op = "init"
    /\ \E fs \in FixtureLists : args = [fixtures |-> fs]
    /\ ret = NotCalled
    /\ IdleRanking
    /\ IdleBatch
    /\ IdleStore
    /\ IdleService

\* one iteration of the runner's main loop
RunnerFixture ==
    /\ op \in {"init", "runner_main"}
    /\ pc \in {"idle", "loop"}
    /\ idx < Len(args.fixtures)
    /\ LET r == runner_fixture(args.fixtures[idx + 1], idx + 1)
       IN  /\ opportunities' = opportunities \o r.opps
           /\ pc' = IF r.status = "raise" THEN "raised" ELSE "loop"
    /\ idx' = idx + 1
    /\ op' = "runner_main"
    /\ UNCHANGED <<args, ret, ranked, saved, suggestions, telegram, db, service>>

\* `if not fixtures: return`, or the end of the loop and the final sort
RunnerFinish ==
    /\ op \in {"init", "runner_main"}
    /\ pc \in {"idle", "loop"}
    /\ idx = Len(args.fixtures)
    /\ opportunities' = runner_sort(opportunities)
    /\ pc' = "done"
    /\ op' = "runner_main"
    /\ UNCHANGED <<args, ret, ranked, idx, saved, suggestions, telegram, db, service>>

\* one iteration of `for fx in fixtures_for_date`
AnalyzerFixture ==
    /\ op \in {"init", "run_daily_analysis"}
    /\ pc \in {"idle", "loop"}
    /\ idx < Len(args.fixtures)
    /\ opportunities' = opportunities \o analyzer_fixture(args.fixtures[idx + 1], idx + 1)
    /\ idx' = idx + 1
    /\ pc' = "loop"
    /\ op' = "run_daily_analysis"
    /\ UNCHANGED <<args, ret, ranked, saved, suggestions, telegram, db, service>>

\* return all_opportunities
AnalyzerFinish ==
    /\ op \in {"init", "run_daily_analysis"}
    /\ pc \in {"idle", "loop"}
    /\ idx = Len(args.fixtures)
    /\ ret' = opportunities
    /\ pc' = "done"
    /\ op' = "run_daily_analysis"
    /\ UNCHANGED <<args, opportunities, ranked, idx, saved, suggestions, telegram, db, service>>

NextBatch ==
    \/ RunnerFixture
    \/ RunnerFinish
    \/ AnalyzerFixture
    \/ AnalyzerFinish

SpecBatch == InitBatch /\ [][NextBatch]_vars

----------------------------------------------------------------------------
(* Claims about batch analysis                                              *)

\* C16 (as claimed): a fixture that fails (missing fields, a failed data or
\* odds fetch, an exception while scoring) costs only its own opportunity:
\* no exception leaves the batch function, and when it returns every
\* fixture of the list has been gone through.
C16_BatchSurvivesFixtureFailure ==
    /\ pc # "raised"
    /\ pc = "done" => idx = Len(args.fixtures)

\* The same statement for run_daily_analysis alone, whose loop body is
\* wrapped in try/except; a good fixture after a failed one still yields
\* its opportunity.
AnalyzerBatchSurvives ==
    op = "run_daily_analysis" =>
        /\ pc # "raised"
        /\ pc = "done" =>
              /\ idx = Len(args.fixtures)
              /\ \A i \in 1..Len(args.fixtures) :
                     args.fixtures[i] = GoodFx =>
                         \E k \in 1..Len(ret) : ret[k].match_id = i

\* The same statement for analyze_daily_matches (specification SpecSched),
\* where _analyze_fixture returns [] on any exception.
SchedulerBatchSurvives ==
    /\ pc # "raised"
    /\ pc = "done" => idx = NumFixtures

----------------------------------------------------------------------------
(* math.exp.  exp(-x) is tabulated to four decimals for x = k/20,           *)
(* k = -40 .. 120 (x from -2.00 to 6.00); beyond x = 50 the value is below  *)
(* 10^-21 and taken as 0, and below x = -709 math.exp raises OverflowError. *)

ExpTable ==
    <<
       73891, 70287, 66859, 63598, 60496, 57546, 54739, 52070, 49530, 47115,
       44817, 42631, 40552, 38574, 36693, 34903, 33201, 31582, 30042, 28577,
       27183, 25857, 24596, 23396, 22255, 21170, 20138, 19155, 18221, 17333,
       16487, 15683, 14918, 14191, 13499, 12840, 12214, 11618, 11052, 10513,
       10000, 9512, 9048, 8607, 8187, 7788, 7408, 7047, 6703, 6376,
       6065, 5769, 5488, 5220, 4966, 4724, 4493, 4274, 4066, 3867,
       3679, 3499, 3329, 3166, 3012, 2865, 2725, 2592, 2466, 2346,
       2231, 2122, 2019, 1920, 1827, 1738, 1653, 1572, 1496, 1423,
       1353, 1287, 1225, 1165, 1108, 1054, 1003, 954, 907, 863,
       821, 781, 743, 707, 672, 639, 608, 578, 550, 523,
       498, 474, 450, 429, 408, 388, 369, 351, 334, 317,
       302, 287, 273, 260, 247, 235, 224, 213, 202, 193,
       183, 174, 166, 158, 150, 143, 136, 129, 123, 117,
       111, 106, 101, 96, 91, 87, 82, 78, 74, 71,
       67, 64, 61, 58, 55, 52, 50, 47, 45, 43,
       41, 39, 37, 35, 33, 32, 30, 29, 27, 26,
       25
    >>

exp_neg(x) ==
    IF RGe(x, Int2R(50)) THEN Zero
    ELSE IF RLe(x, Int2R(-710)) THEN Raised
    ELSE LET k == RMul(x, Int2R(20)).n
         IN  R(ExpTable[k + 41], 10000)

----------------------------------------------------------------------------
(* football_value_detector/src/probability_calculator.py :                  *)
(* class ProbabilityCalculator.  A stats dict is a record whose fields are  *)
(* numbers or Missing (key absent, .get gives its default); None stands for *)
(* an argument that is not a dict.  Every helper catches its own            *)
(* exceptions and answers baseline_over_rate.  The flags is_derby and       *)
(* is_classic are FALSE when absent, as their .get default.                 *)

WEIGHTS ==
    [poisson            |-> R(25, 100),
     historical_rate    |-> R(15, 100),
     recent_trend       |-> R(10, 100),
     h2h                |-> R(12, 100),
     offensive_strength |-> R(10, 100),
     offensive_trend    |-> R(8, 100),
     season_phase       |-> R(8, 100),
     motivation         |-> R(7, 100),
     match_importance   |-> R(5, 100)]

baseline_over_rate == R(72, 100)

Missing == [type |-> "Missing"]

\* dict.get(key, default)
Get(value, default) == IF value = Missing THEN default ELSE value

\* lambda_total of _calculate_poisson_over_probability (the value it logs)
poisson_lambda_total(home_stats, away_stats) ==
    LET home_attack  == Get(home_stats.goals_for_avg, R(15, 10))
        away_defense == Get(away_stats.goals_against_avg, R(15, 10))
        lambda_home  == RDiv(RAdd(home_attack, away_defense), Int2R(2))
        away_attack  == Get(away_stats.goals_for_avg, R(12, 10))
        home_defense == Get(home_stats.goals_against_avg, R(12, 10))
        lambda_away  == RDiv(RAdd(away_attack, home_defense), Int2R(2))
    IN  RAdd(lambda_home, lambda_away)

\* the indicator without the final complement: P(Under 1.5)
calculate_poisson_under_probability(home_stats, away_stats) ==
    IF home_stats = None \/ away_stats = None THEN baseline_over_rate
    ELSE
      LET lambda_total == poisson_lambda_total(home_stats, away_stats)
          e            == exp_neg(lambda_total)
      IN  IF e = Raised THEN baseline_over_rate
          ELSE RMul(e, RAdd(One, lambda_total))

calculate_poisson_over_probability(home_stats, away_stats) ==
    IF home_stats = None \/ away_stats = None THEN baseline_over_rate
    ELSE
      LET lambda_total == poisson_lambda_total(home_stats, away_stats)
          e            == exp_neg(lambda_total)
      IN  IF e = Raised THEN baseline_over_rate
          ELSE RSub(One, RMul(e, RAdd(One, lambda_total)))

calculate_historical_rate(home_stats, away_stats) ==
    IF home_stats = None \/ away_stats = None THEN baseline_over_rate
    ELSE
      LET home_rate == Get(home_stats.over_1_5_rate, R(72, 100))
          away_rate == Get(away_stats.over_1_5_rate, R(72, 100))
      IN  RAdd(RMul(home_rate, R(55, 100)), RMul(away_rate, R(45, 100)))

calculate_recent_trend(home_stats, away_stats) ==
    IF home_stats = None \/ away_stats = None THEN baseline_over_rate
    ELSE
      LET home_recent == Get(home_stats.recent_over_1_5_rate, R(72, 100))
          away_recent == Get(away_stats.recent_over_1_5_rate, R(72, 100))
      IN  RDiv(RAdd(home_recent, away_recent), Int2R(2))

\* _calculate_h2h_probability without the small-sample branch
calculate_h2h_probability_no_shrink(h2h_data) ==
    IF h2h_data = None THEN baseline_over_rate
    ELSE IF h2h_data.matches = <<>> THEN baseline_over_rate
    ELSE
      LET matches    == h2h_data.matches
          over_count == Cardinality({i \in 1..Len(matches) :
                                        matches[i] >= 2})
      IN  R(over_count, Len(matches))

\* h2h_data is None (also for an empty dict) or [matches |-> the list]; a
\* match is its total_goals; a dict without 'matches' is the empty list
calculate_h2h_probability(h2h_data) ==
    IF h2h_data = None THEN baseline_over_rate
    ELSE IF h2h_data.matches = <<>> THEN baseline_over_rate
    ELSE
      LET matches    == h2h_data.matches
          over_count == Cardinality({i \in 1..Len(matches) :
                                        matches[i] >= 2})
          h2h_rate   == R(over_count, Len(matches))
      IN  IF Len(matches) < 3
          THEN RAdd(RMul(h2h_rate, R(6, 10)), RMul(baseline_over_rate, R(4, 10)))
          ELSE h2h_rate

calculate_offensive_strength(home_stats, away_stats) ==
    IF home_stats = None \/ away_stats = None THEN baseline_over_rate
    ELSE
      LET home_attack  == Get(home_stats.goals_for_avg, R(15, 10))
          away_attack  == Get(away_stats.goals_for_avg, R(12, 10))
          total_attack == RAdd(home_attack, away_attack)
          prob ==
              IF RGe(total_attack, Int2R(3))
              THEN RAdd(R(85, 100),
                        RMin(RMul(RSub(total_attack, Int2R(3)), R(5, 100)),
                             R(10, 100)))
              ELSE IF RGe(total_attack, R(25, 10)) THEN R(75, 100)
              ELSE IF RGe(total_attack, Int2R(2)) THEN R(65, 100)
              ELSE RAdd(R(50, 100),
                        RMul(RSub(total_attack, R(15, 10)), R(3, 10)))
      IN  RMin(prob, R(95, 100))

calculate_offensive_trend(home_stats, away_stats) ==
    IF home_stats = None \/ away_stats = None THEN baseline_over_rate
    ELSE
      LET home_trend   == Get(home_stats.recent_goals_avg, R(15, 10))
          away_trend   == Get(away_stats.recent_goals_avg, R(12, 10))
          home_general == Get(home_stats.goals_for_avg, R(15, 10))
          away_general == Get(away_stats.goals_for_avg, R(12, 10))
          home_improvement ==
              IF RGt(home_general, Zero) THEN RDiv(home_trend, home_general) ELSE One
          away_improvement ==
              IF RGt(away_general, Zero) THEN RDiv(away_trend, away_general) ELSE One
          avg_improvement ==
              RDiv(RAdd(home_improvement, away_improvement), Int2R(2))
          prob == RMul(baseline_over_rate, avg_improvement)
      IN  RMin(prob, R(95, 100))

\* match_context is None when it is missing or an empty dict
calculate_season_phase_adjustment(match_context) ==
    IF match_context = None THEN baseline_over_rate
    ELSE
      LET round_num    == Get(match_context.round, Int2R(20))
          total_rounds == Get(match_context.total_rounds, Int2R(38))
      IN  IF total_rounds = Zero THEN baseline_over_rate  \* ZeroDivisionError
          ELSE LET phase == RDiv(round_num, total_rounds)
               IN  IF RLt(phase, R(25, 100)) THEN R(70, 100)
                   ELSE IF RLt(phase, R(75, 100)) THEN R(72, 100)
                   ELSE R(75, 100)

calculate_motivation_factor(match_context) ==
    IF match_context = None THEN baseline_over_rate
    ELSE
      LET home_position == Get(match_context.home_position, Int2R(10)).n
          away_position == Get(match_context.away_position, Int2R(10)).n
          total_teams   == Get(match_context.total_teams, Int2R(20)).n
          high_motivation_positions ==
              (1..4) \cup ((total_teams - 2)..total_teams)
          home_motivated == home_position \in high_motivation_positions
          away_motivated == away_position \in high_motivation_positions
      IN  IF home_motivated /\ away_motivated THEN R(78, 100)
          ELSE IF home_motivated \/ away_motivated THEN R(75, 100)
          ELSE R(70, 100)

calculate_match_importance(match_context) ==
    IF match_context = None THEN baseline_over_rate
    ELSE IF match_context.is_derby \/ match_context.is_classic
    THEN R(78, 100)
    ELSE baseline_over_rate

H2HLen(h2h_data) ==
    IF h2h_data = None THEN 0 ELSE Len(h2h_data.matches)

calculate_confidence(home_stats, away_stats, h2h_data) ==
    IF home_stats = None \/ away_stats = None THEN Int2R(50)
    ELSE
      LET home_games == Get(home_stats.games_played, Zero)
          away_games == Get(away_stats.games_played, Zero)
          c1 == IF RGe(home_games, Int2R(10)) /\ RGe(away_games, Int2R(10)) THEN 20
                ELSE IF RGe(home_games, Int2R(5)) /\ RGe(away_games, Int2R(5)) THEN 10
                ELSE 0
          c2 == IF H2HLen(h2h_data) >= 3 THEN 15
                ELSE IF H2HLen(h2h_data) >= 1 THEN 7
                ELSE 0
          home_consistency ==
              RAbs(RSub(Get(home_stats.over_1_5_rate, R(72, 100)),
                        Get(home_stats.recent_over_1_5_rate, R(72, 100))))
          away_consistency ==
              RAbs(RSub(Get(away_stats.over_1_5_rate, R(72, 100)),
                        Get(away_stats.recent_over_1_5_rate, R(72, 100))))
          avg_consistency ==
              RDiv(RAdd(home_consistency, away_consistency), Int2R(2))
          c3 == IF RLt(avg_consistency, R(10, 100)) THEN 15
                ELSE IF RLt(avg_consistency, R(20, 100)) THEN 8
                ELSE 0
      IN  RMin(Int2R(50 + c1 + c2 + c3), Int2R(100))

\* the nine indicator values of calculate_probability, before weighting
indicators(a) ==
    [poisson            |-> calculate_poisson_over_probability(a.home_stats, a.away_stats),
     historical_rate    |-> calculate_historical_rate(a.home_stats, a.away_stats),
     recent_trend       |-> calculate_recent_trend(a.home_stats, a.away_stats),
     h2h                |-> calculate_h2h_probability(a.h2h_data),
     offensive_strength |-> calculate_offensive_strength(a.home_stats, a.away_stats),
     offensive_trend    |-> calculate_offensive_trend(a.home_stats, a.away_stats),
     season_phase       |-> calculate_season_phase_adjustment(a.match_context),
     motivation         |-> calculate_motivation_factor(a.match_context),
     match_importance   |-> calculate_match_importance(a.match_context)]

\* final_probability before max(0.0, min(1.0, ...))
weighted_probability(v) ==
    RAdd(RMul(v.poisson, WEIGHTS.poisson),
    RAdd(RMul(v.historical_rate, WEIGHTS.historical_rate),
    RAdd(RMul(v.recent_trend, WEIGHTS.recent_trend),
    RAdd(RMul(v.h2h, WEIGHTS.h2h),
    RAdd(RMul(v.offensive_strength, WEIGHTS.offensive_strength),
    RAdd(RMul(v.offensive_trend, WEIGHTS.offensive_trend),
    RAdd(RMul(v.season_phase, WEIGHTS.season_phase),
    RAdd(RMul(v.motivation, WEIGHTS.motivation),
         RMul(v.match_importance, WEIGHTS.match_importance)))))))))

\* the clamp left out: final_probability passed on as it is
clamp_identity(x) == x

\* max(0.0, min(1.0, final_probability))
clamp(x) == RMax(Zero, RMin(One, x))

\* a.fault: an exception raised in the body outside the helpers (each helper
\* has its own try/except), which the outer except turns into the fallback
calculate_probability(a, tieUp) ==
    IF a.fault
    THEN [type        |-> "Estimate",
          probability |-> baseline_over_rate,
          confidence  |-> R(30, 100),
          breakdown   |-> <<>>,
          error       |-> TRUE]
    ELSE
      LET v == indicators(a)
          final_probability == clamp(weighted_probability(v))
          confidence == calculate_confidence(a.home_stats, a.away_stats, a.h2h_data)
      IN  [type        |-> "Estimate",
           probability |-> round(final_probability, 4, tieUp),
           confidence  |-> round(confidence, 2, tieUp),
           breakdown   |->
               [poisson            |-> round(v.poisson, 4, tieUp),
                historical_rate    |-> round(v.historical_rate, 4, tieUp),
                recent_trend       |-> round(v.recent_trend, 4, tieUp),
                h2h                |-> round(v.h2h, 4, tieUp),
                offensive_strength |-> round(v.offensive_strength, 4, tieUp),
                offensive_trend    |-> round(v.offensive_trend, 4, tieUp),
                season_phase       |-> round(v.season_phase, 4, tieUp),
                motivation         |-> round(v.motivation, 4, tieUp),
                match_importance   |-> round(v.match_importance, 4, tieUp)],
           error       |-> FALSE]

----------------------------------------------------------------------------
(* src/probability_calculator.py : the later revision, one dict argument,   *)
(* six indicators, a float result.  A field of data is a number or Missing. *)

INDICATOR_WEIGHTS ==
    [poisson_probability |-> R(29, 100),
     historical_rate     |-> R(19, 100),
     recent_trend        |-> R(10, 100),
     h2h_rate            |-> R(12, 100),
     offensive_strength  |-> R(18, 100),
     motivation_factor   |-> R(12, 100)]

\* only ValueError is caught: the OverflowError of math.exp leaves the method
src_calculate_poisson_over_probability(lambda_value) ==
    LET e == exp_neg(lambda_value)
    IN  IF e = Raised THEN Raised
        ELSE RMax(Zero, RMin(One, RSub(One, RMul(e, RAdd(One, lambda_value)))))

src_calculate_probability(data) ==
    LET lambda_value == Get(data.expected_goals_lambda, Zero)
        poisson_prob == src_calculate_poisson_over_probability(lambda_value)
    IN  IF poisson_prob = Raised THEN Raised
        ELSE IF \/ data.home_over_1_5_rate = Missing
                \/ data.away_over_1_5_rate = Missing
                \/ data.recent_over_1_5_rate = Missing
                \/ data.h2h_over_1_5_rate = Missing
                \/ data.home_offensive_score = Missing
                \/ data.away_offensive_score = Missing
                \/ data.combined_motivation_score = Missing
        THEN Zero                                          \* except KeyError
        ELSE
          LET final_probability ==
                RAdd(RMul(poisson_prob, INDICATOR_WEIGHTS.poisson_probability),
                RAdd(RMul(RMul(data.home_over_1_5_rate, data.away_over_1_5_rate),
                          INDICATOR_WEIGHTS.historical_rate),
                RAdd(RMul(data.recent_over_1_5_rate, INDICATOR_WEIGHTS.recent_trend),
                RAdd(RMul(data.h2h_over_1_5_rate, INDICATOR_WEIGHTS.h2h_rate),
                RAdd(RMul(RMul(data.home_offensive_score, data.away_offensive_score),
                          INDICATOR_WEIGHTS.offensive_strength),
                     RMul(data.combined_motivation_score,
                          INDICATOR_WEIGHTS.motivation_factor))))))
          IN  RMax(Zero, RMin(One, final_probability))

----------------------------------------------------------------------------
(* H2H rate of the src revision: APIClient.collect_h2h_data (api_client.py), *)
(* DataCollector.collect_h2h_data (data_collector.py) and the .get of        *)
(* Scheduler._analyze_fixture that puts it into the calculator's input.      *)
(* resp is None (request failed) or the list of the matches' total goals.    *)

api_collect_h2h_data(resp) ==
    IF resp = None THEN None
    ELSE
      LET total        == Len(resp.matches)
          over15_count == Cardinality({i \in 1..total : resp.matches[i] > 1})
      IN  IF total = 0
          THEN [h2h_over_1_5_rate |-> None, h2h_matches |-> 0]
          ELSE [h2h_over_1_5_rate |-> R(over15_count, total), h2h_matches |-> total]

\* DataCollector.collect_h2h_data: {} when the client gave nothing
src_collect_h2h_data(resp) ==
    LET raw_h2h == api_collect_h2h_data(resp)
    IN  IF raw_h2h = None THEN [h2h_over_1_5_rate |-> Missing]
        ELSE [h2h_over_1_5_rate |-> raw_h2h.h2h_over_1_5_rate]

\* h2h_data.get('h2h_over_1_5_rate', 0.75) of _analyze_fixture
h2h_rate_input(resp) == Get(src_collect_h2h_data(resp).h2h_over_1_5_rate, R(75, 100))

----------------------------------------------------------------------------
(* Specification SpecProb: one call of calculate_probability (either         *)
(* revision) or of the H2H collection, on statistics drawn from the cases    *)
(* below: typical teams, empty and missing dicts, rates outside [0, 1],      *)
(* negative and very large goal averages.                                    *)

TeamStats(gf10, ga10, rate100, recent100, rg10, games) ==
    [goals_for_avg |-> R(gf10, 10), goals_against_avg |-> R(ga10, 10),
     over_1_5_rate |-> R(rate100, 100), recent_over_1_5_rate |-> R(recent100, 100),
     recent_goals_avg |-> R(rg10, 10), games_played |-> Int2R(games)]

EmptyStats ==
    [goals_for_avg |-> Missing, goals_against_avg |-> Missing,
     over_1_5_rate |-> Missing, recent_over_1_5_rate |-> Missing,
     recent_goals_avg |-> Missing, games_played |-> Missing]

StatsCases ==
    { TeamStats(18, 11, 80, 85, 20, 12),        \* a scoring side
      TeamStats(8, 9, 55, 40, 6, 6),            \* a low-scoring side
      TeamStats(0, 15, 60, 60, 0, 10),          \* no goals scored
      TeamStats(-10, -5, 150, -20, 30, 3),      \* rates and averages out of range
      TeamStats(10000, 10000, 100, 100, 10000, 40),   \* very large averages
      TeamStats(-50000, 0, 0, 0, 0, 0),         \* very large negative average
      EmptyStats,
      None }

H2HCases ==
    { None,
      [matches |-> <<>>],
      [matches |-> <<3>>],
      [matches |-> <<0>>],
      [matches |-> <<2, 3>>],
      [matches |-> <<2, 0>>],
      [matches |-> <<1, 1, 0>>],
      [matches |-> <<2, 2, 4>>] }

Context(round_num, total_rounds, home_position, away_position, derby) ==
    [round |-> Int2R(round_num), total_rounds |-> Int2R(total_rounds),
     home_position |-> Int2R(home_position), away_position |-> Int2R(away_position),
     total_teams |-> Missing, is_derby |-> derby, is_classic |-> FALSE]

ContextCases ==
    { None,
      Context(5, 38, 2, 19, FALSE),
      Context(35, 38, 10, 12, TRUE),
      Context(20, 0, 1, 12, FALSE) }

Data(lam10, home100, away100, recent, h2h100, off100, mot100) ==
    [expected_goals_lambda |-> R(lam10, 10),
     home_over_1_5_rate |-> R(home100, 100), away_over_1_5_rate |-> R(away100, 100),
     recent_over_1_5_rate |-> recent,
     h2h_over_1_5_rate |-> R(h2h100, 100),
     home_offensive_score |-> R(off100, 100), away_offensive_score |-> R(off100, 100),
     combined_motivation_score |-> R(mot100, 100)]

DataCases ==
    { Data(27, 75, 70, R(80, 100), 78, 60, 50),
      Data(27, 75, 70, Missing, 78, 60, 50),       \* the dict _analyze_fixture builds
      Data(60, 150, 200, R(120, 100), 100, 300, 100),
      Data(-10, -50, 70, R(-20, 100), 0, 60, -100),
      Data(-10000, 75, 70, R(80, 100), 78, 60, 50),
      [expected_goals_lambda |-> Missing,
       home_over_1_5_rate |-> Missing, away_over_1_5_rate |-> Missing,
       recent_over_1_5_rate |-> Missing, h2h_over_1_5_rate |-> Missing,
       home_offensive_score |-> Missing, away_offensive_score |-> Missing,
       combined_motivation_score |-> Missing] }

InitProb ==
    /\ op = "init"
    /\ args \in [home_stats : StatsCases, away_stats : StatsCases,
                 h2h_data : H2HCases, match_context : ContextCases,
                 fault : BOOLEAN, data : DataCases]
    /\ ret = NotCalled
    /\ IdleRanking
    /\ IdleBatch
    /\ IdleStore
    /\ IdleService

CalculateProbability ==
    /\ op = "init"
    /\ \E tieUp \in BOOLEAN : ret' = calculate_probability(args, tieUp)
    /\ op' = "calculate_probability"
    /\ UNCHANGED <<args, opportunities, ranked, pc, idx, saved, suggestions, telegram, db, service>>

SrcCalculateProbability ==
    /\ op = "init"
    /\ ret' = [type |-> "Float", value |-> src_calculate_probability(args.data)]
    /\ op' = "src_calculate_probability"
    /\ UNCHANGED <<args, opportunities, ranked, pc, idx, saved, suggestions, telegram, db, service>>

\* the rate that reaches probability_input_data['h2h_over_1_5_rate']
CollectH2hData ==
    /\ op = "init"
    /\ ret' = [type |-> "H2H", h2h_over_1_5_rate |-> h2h_rate_input(args.h2h_data)]
    /\ op' = "collect_h2h_data"
    /\ UNCHANGED <<args, opportunities, ranked, pc, idx, saved, suggestions, telegram, db, service>>

NextProb ==
    \/ CalculateProbability
    \/ SrcCalculateProbability
    \/ CollectH2hData

SpecProb == InitProb /\ [][NextProb]_vars

----------------------------------------------------------------------------
(* Claims about the probability calculator                                  *)

InRange(x, lo, hi) == RGe(x, lo) /\ RLe(x, hi)

DataIncomplete(data) ==
    \/ data.home_over_1_5_rate = Missing
    \/ data.away_over_1_5_rate = Missing
    \/ data.recent_over_1_5_rate = Missing
    \/ data.h2h_over_1_5_rate = Missing
    \/ data.home_offensive_score = Missing
    \/ data.away_offensive_score = Missing
    \/ data.combined_motivation_score = Missing

\* C17 (as claimed): when calculate_probability meets an internal exception
\* or missing input it raises nothing and returns a baseline estimate with
\* probability between 0.70 and 0.72 and confidence between 30 and 50 (on the
\* 0-100 scale); the later revision returns a bare probability.
C17_FallbackIsBaseline ==
    /\ (op = "calculate_probability" /\ args.fault) =>
           /\ InRange(ret.probability, R(70, 100), R(72, 100))
           /\ InRange(ret.confidence, Int2R(30), Int2R(50))
    /\ (op = "src_calculate_probability" /\ DataIncomplete(args.data)) =>
           /\ ret.value # Raised
           /\ InRange(ret.value, R(70, 100), R(72, 100))

\* C18: every estimate of calculate_probability has probability within
\* [0, 1] and confidence within [0, 100], whatever the statistics; off the
\* fallback path the confidence is 50 plus bonuses (0/10/20 for sample size,
\* 0/7/15 for H2H, 0/8/15 for consistency) and never above 100.
C18_EstimateWithinRange ==
    op = "calculate_probability" =>
        /\ InRange(ret.probability, Zero, One)
        /\ InRange(ret.confidence, Zero, Int2R(100))
        /\ ~ret.error =>
              /\ RGe(ret.confidence, Int2R(50))
              /\ \E c1 \in {0, 10, 20}, c2 \in {0, 7, 15}, c3 \in {0, 8, 15} :
                     ret.confidence = Int2R(50 + c1 + c2 + c3)

\* C18 witness: the weighted sum left [0, 1] (statistics out of range) and
\* the estimate came back clamped, with all three bonuses earned or none.
C18_Witness ==
    /\ op = "calculate_probability"
    /\ ~args.fault
    /\ \/ RGt(weighted_probability(indicators(args)), One) /\ ret.probability = One
       \/ RLt(weighted_probability(indicators(args)), Zero) /\ ret.probability = Zero
    /\ ret.confidence \in {Int2R(50), Int2R(100)}

\* the H2H indicator as the rule states it, for the list of total goals
ShrunkH2H(h2h_data, baseline) ==
    IF H2HLen(h2h_data) = 0 THEN baseline
    ELSE
      LET n        == H2HLen(h2h_data)
          observed == R(Cardinality({i \in 1..n : h2h_data.matches[i] >= 2}), n)
      IN  IF n < 3
          THEN RAdd(RMul(R(6, 10), observed), RMul(R(4, 10), baseline))
          ELSE observed

\* C19 (as claimed): with 1 or 2 head-to-head matches the H2H indicator that
\* enters the blend is 0.6 * observed rate + 0.4 * baseline, with none it is
\* the baseline, with 3 or more the observed rate; for the indicator of
\* calculate_probability (baseline 0.72, shown to four decimals) and for the
\* rate the collectors hand to the later revision (baseline 0.75).
C19_H2HShrinkage ==
    /\ (op = "calculate_probability" /\ ~args.fault) =>
           RLe(RAbs(RSub(ret.breakdown.h2h,
                         ShrunkH2H(args.h2h_data, baseline_over_rate))),
               R(5, 100000))
    /\ (op = "collect_h2h_data" /\ H2HLen(args.h2h_data) \in {1, 2}) =>
           ret.h2h_over_1_5_rate = ShrunkH2H(args.h2h_data, R(75, 100))

\* The part that holds: the indicator of _calculate_h2h_probability.
H2HShrinkageInCalculator ==
    (op = "calculate_probability" /\ ~args.fault) =>
        RLe(RAbs(RSub(ret.breakdown.h2h,
                      ShrunkH2H(args.h2h_data, baseline_over_rate))),
            R(5, 100000))

BreakdownSum(b) ==
    RAdd(b.poisson, RAdd(b.historical_rate, RAdd(b.recent_trend, RAdd(b.h2h,
    RAdd(b.offensive_strength, RAdd(b.offensive_trend, RAdd(b.season_phase,
    RAdd(b.motivation, b.match_importance))))))))

\* C20 (as claimed): in a non-fallback estimate each breakdown entry is the
\* indicator's value times its weight (to four decimals), and the entries
\* sum to the probability as it was before clamping (nine roundings apart).
C20_BreakdownSumsToProbability ==
    (op = "calculate_probability" /\ ~args.fault) =>
        LET v == indicators(args)
        IN  /\ RLe(RAbs(RSub(ret.breakdown.poisson, RMul(v.poisson, WEIGHTS.poisson))),
                   R(5, 100000))
            /\ RLe(RAbs(RSub(ret.breakdown.h2h, RMul(v.h2h, WEIGHTS.h2h))),
                   R(5, 100000))
            /\ RLe(RAbs(RSub(BreakdownSum(ret.breakdown), weighted_probability(v))),
                   R(45, 100000))

\* What the record holds instead: each entry is the indicator's value itself
\* (to four decimals); it is the entries times their weights that add up to
\* the probability before clamping.
BreakdownHoldsRawIndicators ==
    (op = "calculate_probability" /\ ~args.fault) =>
        LET v == indicators(args)
            b == ret.breakdown
        IN  /\ RLe(RAbs(RSub(b.poisson, v.poisson)), R(5, 100000))
            /\ RLe(RAbs(RSub(b.h2h, v.h2h)), R(5, 100000))
            /\ RLe(RAbs(RSub(weighted_probability(b), weighted_probability(v))),
                   R(5, 100000))

----------------------------------------------------------------------------
(* Specification SpecPoisson: the expected total goals and the Poisson      *)
(* over-probability, in the two pipelines that compute them.                *)
(*   football_value_detector: _calculate_poisson_over_probability reads the *)
(*     four goal averages of the two stats dicts.                           *)
(*   scheduler.py: _analyze_fixture builds expected_goals_lambda from the   *)
(*     dicts of DataCollector.collect_team_data (src/data_collector.py),    *)
(*     which carry goals_for_avg only, and calculate_probability hands it   *)
(*     to src/probability_calculator.py.                                    *)
(* The averages are drawn in tenths; Missing is an absent key.              *)

GoalAverages ==
    { Zero, R(5, 10), R(9, 10), R(15, 10), R(18, 10), R(30, 10), Int2R(1000), Missing }

GoalStats == [goals_for_avg : GoalAverages, goals_against_avg : GoalAverages]

\* probability_input_data['expected_goals_lambda'] of _analyze_fixture
expected_goals_lambda(home_data, away_data) ==
    RAdd(Get(home_data.goals_for_avg, R(15, 10)),
         RDiv(Get(away_data.goals_for_avg, R(15, 10)), Int2R(2)))

InitPoisson ==
    /\ op = "init"
    /\ args \in [home_stats : GoalStats, away_stats : GoalStats]
    /\ ret = NotCalled
    /\ IdleRanking
    /\ IdleBatch
    /\ IdleStore
    /\ IdleService

\* ProbabilityCalculator._calculate_poisson_over_probability(home_stats, away_stats)
PoissonOverProbability ==
    /\ op = "init"
    /\ ret' = [type         |-> "Poisson",
               lambda_total |-> poisson_lambda_total(args.home_stats, args.away_stats),
               prob_over    |-> calculate_poisson_over_probability(args.home_stats,
                                                                   args.away_stats)]
    /\ op' = "calculate_poisson_over_probability"
    /\ UNCHANGED <<args, opportunities, ranked, pc, idx, saved, suggestions, telegram, db, service>>

\* _analyze_fixture builds the lambda; calculate_probability of the later
\* revision turns it into the Poisson indicator
SchedulerExpectedGoals ==
    /\ op = "init"
    /\ LET lambda_value == expected_goals_lambda(args.home_stats, args.away_stats)
       IN  ret' = [type         |-> "Poisson",
                   lambda_total |-> lambda_value,
                   prob_over    |-> src_calculate_poisson_over_probability(lambda_value)]
    /\ op' = "expected_goals_lambda"
    /\ UNCHANGED <<args, opportunities, ranked, pc, idx, saved, suggestions, telegram, db, service>>

NextPoisson ==
    \/ PoissonOverProbability
    \/ SchedulerExpectedGoals

SpecPoisson == InitPoisson /\ [][NextPoisson]_vars

----------------------------------------------------------------------------
(* Claims about the expected goals and the Poisson indicator                *)

AveragesPresent(a) ==
    /\ a.home_stats.goals_for_avg # Missing
    /\ a.home_stats.goals_against_avg # Missing
    /\ a.away_stats.goals_for_avg # Missing
    /\ a.away_stats.goals_against_avg # Missing

\* (home attack + away defence) / 2 + (away attack + home defence) / 2
LambdaOfAverages(a) ==
    RAdd(RDiv(RAdd(a.home_stats.goals_for_avg, a.away_stats.goals_against_avg), Int2R(2)),
         RDiv(RAdd(a.away_stats.goals_for_avg, a.home_stats.goals_against_avg), Int2R(2)))

\* C21 (as claimed): in both pipelines the expected total goals fed to the
\* Poisson model is (home attack average + away defence average) / 2 +
\* (away attack average + home defence average) / 2.
C21_LambdaFormula ==
    (op \in {"calculate_poisson_over_probability", "expected_goals_lambda"}
        /\ AveragesPresent(args)) =>
        ret.lambda_total = LambdaOfAverages(args)

\* The part that holds: lambda_total of _calculate_poisson_over_probability.
LambdaFormulaInCalculator ==
    (op = "calculate_poisson_over_probability" /\ AveragesPresent(args)) =>
        ret.lambda_total = LambdaOfAverages(args)

----------------------------------------------------------------------------
(* football_value_detector/src/data_collector.py : class DataCollector,     *)
(* the normalizer of the provider's payloads.                               *)
(* A team-statistics payload is the record                                  *)
(*   [fixtures |-> [played |-> [home, away], wins |-> [home, away]],        *)
(*    goals |-> [for |-> [average |-> [home, away, total]], against |-> .]] *)
(* whose leaves are numbers (the provider's decimal strings, as float()     *)
(* reads them), None (JSON null), Bad (a string float() rejects) or Missing *)
(* (key absent); fixtures and goals may be Missing or None themselves.      *)
(* EmptyDict is {} and None is the answer of a failed request.              *)

Bad       == [type |-> "Bad"]
EmptyDict == [type |-> "EmptyDict"]

\* _safe_float(data, ['goals', side, 'average', venue], default)
safe_float(data, side, venue, default) ==
    IF data.goals \in {Missing, None} THEN default       \* KeyError, TypeError
    ELSE LET value == data.goals[side].average[venue]
         IN  IF value \in {Missing, None, Bad} THEN default
             ELSE value

\* the bands with two of them exchanged
calculate_under_rate_swapped(stats, venue) ==
    IF stats.fixtures = None THEN R(30, 100)
    ELSE
      LET played == IF stats.fixtures = Missing THEN Zero
                    ELSE Get(stats.fixtures.played[venue], Zero)
      IN  IF played = Zero THEN R(30, 100)
          ELSE
            LET avg_total == RAdd(safe_float(stats, "for", venue, R(15, 10)),
                                  safe_float(stats, "against", venue, R(15, 10)))
            IN  IF RLe(avg_total, Int2R(1)) THEN R(60, 100)
                ELSE IF RLe(avg_total, R(15, 10)) THEN R(30, 100)
                ELSE IF RLe(avg_total, Int2R(2)) THEN R(40, 100)
                ELSE R(20, 100)

calculate_under_rate(stats, venue) ==
    IF stats.fixtures = None THEN R(30, 100)            \* AttributeError, caught
    ELSE
      LET played == IF stats.fixtures = Missing THEN Zero
                    ELSE Get(stats.fixtures.played[venue], Zero)
      IN  IF played = Zero THEN R(30, 100)
          ELSE
            LET avg_goals    == safe_float(stats, "for", venue, R(15, 10))
                avg_conceded == safe_float(stats, "against", venue, R(15, 10))
                avg_total    == RAdd(avg_goals, avg_conceded)
            IN  IF RLe(avg_total, Int2R(1)) THEN R(60, 100)
                ELSE IF RLe(avg_total, R(15, 10)) THEN R(40, 100)
                ELSE IF RLe(avg_total, Int2R(2)) THEN R(30, 100)
                ELSE R(20, 100)

calculate_strength(stats, venue) ==
    IF stats.fixtures = None THEN R(5, 10)
    ELSE
      LET wins   == IF stats.fixtures = Missing THEN Zero
                    ELSE Get(stats.fixtures.wins[venue], Zero)
          played == IF stats.fixtures = Missing THEN One
                    ELSE Get(stats.fixtures.played[venue], One)
      IN  IF played = None THEN R(5, 10)                \* TypeError, caught
          ELSE IF RGt(played, Zero)
               THEN IF wins = None THEN R(5, 10) ELSE RDiv(wins, played)
               ELSE R(5, 10)

\* int(x): truncation toward zero
Trunc(x) == IF x.n >= 0 THEN x.n \div x.d ELSE -((-x.n) \div x.d)

extract_recent_goals(stats, num_games) ==
    LET avg == safe_float(stats, "for", "total", R(15, 10))
    IN  [i \in 1..num_games |-> Trunc(avg)]

get_default_team_data ==
    [home_goals_scored_avg   |-> R(15, 10),
     home_goals_conceded_avg |-> R(15, 10),
     away_goals_scored_avg   |-> R(15, 10),
     away_goals_conceded_avg |-> R(15, 10),
     home_over_1_5_rate      |-> R(70, 100),
     away_over_1_5_rate      |-> R(70, 100),
     home_strength           |-> R(5, 10),
     away_strength           |-> R(5, 10),
     home_recent_goals       |-> <<1, 2, 1, 2, 1>>,
     away_recent_goals       |-> <<1, 2, 1, 2, 1>>]

\* collect_team_stats, given the two answers of get_team_statistics
collect_team_stats(home_stats, away_stats) ==
    IF home_stats \in {None, EmptyDict} \/ away_stats \in {None, EmptyDict}
    THEN get_default_team_data
    ELSE
      [home_goals_scored_avg   |-> safe_float(home_stats, "for", "home", R(15, 10)),
       home_goals_conceded_avg |-> safe_float(home_stats, "against", "home", R(15, 10)),
       away_goals_scored_avg   |-> safe_float(away_stats, "for", "away", R(15, 10)),
       away_goals_conceded_avg |-> safe_float(away_stats, "against", "away", R(15, 10)),
       home_over_1_5_rate      |-> RSub(One, calculate_under_rate(home_stats, "home")),
       away_over_1_5_rate      |-> RSub(One, calculate_under_rate(away_stats, "away")),
       home_strength           |-> calculate_strength(home_stats, "home"),
       away_strength           |-> calculate_strength(away_stats, "away"),
       home_recent_goals       |-> extract_recent_goals(home_stats, 5),
       away_recent_goals       |-> extract_recent_goals(away_stats, 5)]

\* home_goals + away_goals of one head-to-head match; Raised is the
\* AttributeError of None.get or the TypeError of adding None
match_total(match) ==
    IF match.goals = Missing THEN Zero
    ELSE IF match.goals = None THEN Raised
    ELSE LET home_goals == Get(match.goals.home, Zero)
             away_goals == Get(match.goals.away, Zero)
         IN  IF home_goals = None \/ away_goals = None THEN Raised
             ELSE RAdd(home_goals, away_goals)

RECURSIVE SumTotals(_)
SumTotals(totals) ==
    IF totals = <<>> THEN Zero ELSE RAdd(Head(totals), SumTotals(Tail(totals)))

\* collect_h2h, given the answer of get_h2h (no try/except in the method)
collect_h2h(h2h_matches) ==
    IF h2h_matches = <<>>
    THEN [over_1_5_rate |-> R(70, 100), avg_goals |-> R(25, 10), sample_size |-> 0]
    ELSE
      LET n                == Len(h2h_matches)
          total_goals_list == [i \in 1..n |-> match_total(h2h_matches[i])]
      IN  IF \E i \in 1..n : total_goals_list[i] = Raised THEN Raised
          ELSE
            LET over_count == Cardinality({i \in 1..n : RGt(total_goals_list[i], One)})
            IN  [over_1_5_rate |-> R(over_count, n),
                 avg_goals     |-> RDiv(SumTotals(total_goals_list), Int2R(n)),
                 sample_size   |-> n]

\* A round string is [final |-> whether its lower case holds 'playoff' or
\* 'final', suffix |-> what follows the last '-']: NoDash when there is no
\* '-', a number when int() reads it, Bad when int() raises ValueError.
NoDash == [type |-> "NoDash"]

RoundString(final, suffix) == [final |-> final, suffix |-> suffix]

extract_round_number(round_str) ==
    IF round_str = None THEN 15                 \* AttributeError, caught
    ELSE IF round_str.suffix = NoDash THEN 15
    ELSE IF round_str.suffix = Bad THEN 15      \* ValueError, caught
    ELSE round_str.suffix.n

determine_season_phase(round_num) ==
    IF round_num <= 10 THEN "early"
    ELSE IF round_num <= 28 THEN "mid"
    ELSE "late"

\* fixture_data is [fixture |-> [date |-> [iso |-> string] or Missing] or Missing,
\*                  league  |-> [round |-> round string, None or Missing] or Missing];
\* the fallback dict has no date key
collect_context(fixture_data) ==
    LET fallback == [date |-> Missing, round |-> 15, is_playoff |-> FALSE,
                     season_phase |-> "mid"]
    IN  IF fixture_data.fixture = Missing THEN fallback          \* KeyError
        ELSE IF fixture_data.fixture.date = Missing THEN fallback
        ELSE
          LET league_round ==
                  IF fixture_data.league = Missing THEN RoundString(FALSE, NoDash)
                  ELSE Get(fixture_data.league.round, RoundString(FALSE, NoDash))
              round_num == extract_round_number(league_round)
          IN  IF league_round = None THEN fallback               \* None.lower()
              ELSE [date         |-> fixture_data.fixture.date,
                    round        |-> round_num,
                    is_playoff   |-> league_round.final,
                    season_phase |-> determine_season_phase(round_num)]

----------------------------------------------------------------------------
(* Specification SpecNorm: one call of a normalizer operation on a payload  *)
(* of the provider.  args.call names the operation whose arguments were     *)
(* drawn.                                                                   *)

\* per-venue leaves: the venue under analysis gets the value drawn, the other one a
\* fixed value of its own
PerVenue(venue, value, other) ==
    [v \in {"home", "away", "total"} |->
        IF v = venue THEN value ELSE IF v = "total" THEN value ELSE other]

TeamPayload(venue, played, wins, goals_for, goals_against) ==
    [fixtures |-> [played |-> PerVenue(venue, played, Int2R(9)),
                   wins   |-> PerVenue(venue, wins, Int2R(1))],
     goals    |-> [for     |-> [average |-> PerVenue(venue, goals_for, R(2, 10))],
                   against |-> [average |-> PerVenue(venue, goals_against, R(2, 10))]]]

PlayedLeaves       == {Missing, None, Zero, Int2R(6)}
GoalsForLeaves     == {Zero, R(5, 10), R(75, 100), One, Bad, Missing}
GoalsAgainstLeaves == {R(5, 10), R(75, 100), R(125, 100), None}

TeamPayloads(venue) ==
    {TeamPayload(venue, p, Int2R(3), gf, ga) :
        p \in PlayedLeaves, gf \in GoalsForLeaves, ga \in GoalsAgainstLeaves}
    \cup { None, EmptyDict,
           [fixtures |-> Missing, goals |-> Missing],
           [fixtures |-> None, goals |-> None],
           [fixtures |-> None,
            goals |-> [for     |-> [average |-> PerVenue(venue, R(4, 10), R(2, 10))],
                       against |-> [average |-> PerVenue(venue, R(4, 10), R(2, 10))]]],
           TeamPayload(venue, Int2R(6), None, R(-5, 10), R(35, 10)) }

H2HMatches ==
    { [goals |-> [home |-> Int2R(2), away |-> Int2R(1)]],
      [goals |-> [home |-> Int2R(1), away |-> Zero]],
      [goals |-> [home |-> Zero, away |-> Missing]],
      [goals |-> [home |-> None, away |-> None]],      \* a match not played yet
      [goals |-> Missing],
      [goals |-> None] }

MaxH2H == 2

H2HLists == UNION {[1..n -> H2HMatches] : n \in 0..MaxH2H}

RoundStrings ==
    { RoundString(FALSE, Int2R(5)), RoundString(FALSE, Int2R(15)),
      RoundString(FALSE, Int2R(34)), RoundString(FALSE, NoDash),
      RoundString(TRUE, NoDash), RoundString(TRUE, Bad), RoundString(TRUE, Int2R(2)),
      None, Missing }

FixtureDatas ==
    [fixture : {Missing, [date |-> Missing], [date |-> [iso |-> "2024-05-01T19:00:00+00:00"]]},
     league  : {Missing} \cup [round : RoundStrings]]

InitNorm ==
    /\ op = "init"
    /\ args \in [call : {"collect_team_stats"},
                 home_stats : TeamPayloads("home"), away_stats : TeamPayloads("away")]
             \cup [call : {"collect_h2h"}, h2h_matches : H2HLists]
             \cup [call : {"collect_context"}, fixture_data : FixtureDatas]
    /\ ret = NotCalled
    /\ IdleRanking
    /\ IdleBatch
    /\ IdleStore
    /\ IdleService

CollectTeamStats ==
    /\ op = "init"
    /\ args.call = "collect_team_stats"
    /\ ret' = collect_team_stats(args.home_stats, args.away_stats)
    /\ op' = "collect_team_stats"
    /\ UNCHANGED <<args, opportunities, ranked, pc, idx, saved, suggestions, telegram, db, service>>

CollectH2h ==
    /\ op = "init"
    /\ args.call = "collect_h2h"
    /\ ret' = collect_h2h(args.h2h_matches)
    /\ op' = "collect_h2h"
    /\ UNCHANGED <<args, opportunities, ranked, pc, idx, saved, suggestions, telegram, db, service>>

CollectContext ==
    /\ op = "init"
    /\ args.call = "collect_context"
    /\ ret' = collect_context(args.fixture_data)
    /\ op' = "collect_context"
    /\ UNCHANGED <<args, opportunities, ranked, pc, idx, saved, suggestions, telegram, db, service>>

NextNorm ==
    \/ CollectTeamStats
    \/ CollectH2h
    \/ CollectContext

SpecNorm == InitNorm /\ [][NextNorm]_vars

----------------------------------------------------------------------------
(* Claims about the normalizer                                              *)

IsDict(stats) == stats \notin {None, EmptyDict}

\* games played at the venue, as _calculate_under_rate reads them
PlayedAt(stats, venue) ==
    IF stats.fixtures \in {Missing, None} THEN Missing
    ELSE Get(stats.fixtures.played[venue], Zero)

\* the payloads whose rate comes from the goal-average bands
Banded(stats, venue) ==
    IsDict(stats) /\ PlayedAt(stats, venue) \notin {Missing, Zero}

AvgTotal(stats, venue) ==
    RAdd(safe_float(stats, "for", venue, R(15, 10)),
         safe_float(stats, "against", venue, R(15, 10)))

OverRate(stats, venue) == RSub(One, calculate_under_rate(stats, venue))

\* C22: the over-rate collect_team_stats reports lies in [0, 1]; a team with
\* zero games played at the venue gets 0.70; and among teams that have played,
\* a team whose goals_for_avg + goals_against_avg is at least as large never
\* gets a lower over-rate.
C22_OverRateMonotone ==
    (op = "collect_team_stats") =>
        /\ InRange(ret.home_over_1_5_rate, Zero, One)
        /\ InRange(ret.away_over_1_5_rate, Zero, One)
        /\ (IsDict(args.home_stats) /\ IsDict(args.away_stats)) =>
            /\ PlayedAt(args.home_stats, "home") = Zero =>
                   ret.home_over_1_5_rate = R(70, 100)
            /\ PlayedAt(args.away_stats, "away") = Zero =>
                   ret.away_over_1_5_rate = R(70, 100)
            /\ Banded(args.home_stats, "home") =>
                   \A s2 \in TeamPayloads("home") :
                       (Banded(s2, "home")
                           /\ RGe(AvgTotal(s2, "home"),
                                  RAdd(ret.home_goals_scored_avg,
                                       ret.home_goals_conceded_avg)))
                       => RGe(OverRate(s2, "home"), ret.home_over_1_5_rate)
            /\ Banded(args.away_stats, "away") =>
                   \A s2 \in TeamPayloads("away") :
                       (Banded(s2, "away")
                           /\ RGe(AvgTotal(s2, "away"),
                                  RAdd(ret.away_goals_scored_avg,
                                       ret.away_goals_conceded_avg)))
                       => RGe(OverRate(s2, "away"), ret.away_over_1_5_rate)

\* C22 witness: a home side with averages 0.75 + 0.75 (the edge of a band) gets
\* 0.60 while the away side, without a game played away, gets the baseline.
C22_Witness ==
    /\ op = "collect_team_stats"
    /\ IsDict(args.home_stats) /\ IsDict(args.away_stats)
    /\ Banded(args.home_stats, "home")
    /\ AvgTotal(args.home_stats, "home") = R(15, 10)
    /\ ret.home_over_1_5_rate = R(60, 100)
    /\ PlayedAt(args.away_stats, "away") = Zero
    /\ ret.away_over_1_5_rate = R(70, 100)

\* C23 (as claimed): collect_team_stats, collect_h2h and collect_context never
\* raise, whatever the payload (absent fields, null scores, zero games played,
\* an empty head-to-head list), and substitute the baselines: goal averages
\* 1.5 and over-rate 0.70 for missing statistics, over-rate 0.70 and
\* sample_size 0 for no head-to-head data.
C23_NormalizerNeverRaises ==
    /\ op \in {"collect_team_stats", "collect_h2h", "collect_context"} => ret # Raised
    /\ (op = "collect_team_stats"
            /\ ~(IsDict(args.home_stats) /\ IsDict(args.away_stats))) =>
           /\ ret.home_goals_scored_avg = R(15, 10)
           /\ ret.away_goals_scored_avg = R(15, 10)
           /\ ret.home_over_1_5_rate = R(70, 100)
           /\ ret.away_over_1_5_rate = R(70, 100)
    /\ (op = "collect_h2h" /\ args.h2h_matches = <<>>) =>
           ret.over_1_5_rate = R(70, 100) /\ ret.sample_size = 0

\* The part that holds: the two operations that guard their reads.
TeamStatsAndContextNeverRaise ==
    /\ op \in {"collect_team_stats", "collect_context"} => ret # Raised
    /\ (op = "collect_team_stats"
            /\ ~(IsDict(args.home_stats) /\ IsDict(args.away_stats))) =>
           ret = get_default_team_data
    /\ (op = "collect_context" /\ args.fixture_data.fixture = Missing) =>
           ret.round = 15 /\ ret.season_phase = "mid" /\ ~ret.is_playoff
    /\ (op = "collect_h2h" /\ args.h2h_matches = <<>>) =>
           ret.over_1_5_rate = R(70, 100) /\ ret.sample_size = 0

\* The lambdas the Poisson indicator is compared on: 0.00 to 6.00 in steps of
\* 0.05, and three values far beyond any goal average.
LambdaGrid == {R(k, 20) : k \in 0..120} \cup {Int2R(500), Int2R(1000), Int2R(2000)}

\* a pair of stats dicts whose lambda_total is l (lambda_home = l, lambda_away = 0)
StatsAtLambda(l) ==
    [home_stats |-> [goals_for_avg |-> l, goals_against_avg |-> Zero],
     away_stats |-> [goals_for_avg |-> Zero, goals_against_avg |-> l]]

\* the Poisson indicator of the revision that made the call op, at lambda l
PoissonAt(operation, l) ==
    IF operation = "calculate_poisson_over_probability"
    THEN calculate_poisson_over_probability(StatsAtLambda(l).home_stats,
                                            StatsAtLambda(l).away_stats)
    ELSE src_calculate_poisson_over_probability(l)

PoissonOps == {"calculate_poisson_over_probability", "expected_goals_lambda"}

\* x > y and x >= y by the sign of the difference (the cross products of two
\* six-digit fractions do not fit the checker's integers)
Above(x, y)   == RSub(x, y).n > 0
AtLeast(x, y) == RSub(x, y).n >= 0

\* 0.442 at lambda 1.5 and 0.713 at lambda 2.5, within 0.01
PoissonReferenceValues ==
    /\ ret.lambda_total = R(15, 10) =>
           RLe(RAbs(RSub(ret.prob_over, R(442, 1000))), R(1, 100))
    /\ ret.lambda_total = R(25, 10) =>
           RLe(RAbs(RSub(ret.prob_over, R(713, 1000))), R(1, 100))

----------------------------------------------------------------------------
(* Specification SpecService: the process of src/main.py.                   *)
(* The event-loop thread ("loop") runs background_scheduler, which awaits   *)
(* run_daily_task once a day; run_daily_task has no await inside, so from   *)
(* its test of scheduler_lock to its last line it runs without yielding to  *)
(* another coroutine.  run_once is a plain def: FastAPI hands each GET /run *)
(* to a thread of its pool ("w1", "w2"), and the loop can hand a request    *)
(* over only while it is not itself blocked inside run_daily_analysis.      *)
(* A run of Analyzer.run_daily_analysis advances one date offset per step   *)
(* and ends at the first date with fixtures or after MAX_DAYS_AHEAD.        *)

MaxRuns == 1            \* runs each thread starts

MaxDaysAhead == 1       \* MAX_DAYS_AHEAD (environment, "7" when unset)

ServiceThreads == {"loop", "w1", "w2"}

Workers == {"w1", "w2"}

InitService ==
    /\ IdleDetector
    /\ IdleRanking
    /\ IdleBatch
    /\ IdleStore
    /\ scheduler_lock = FALSE
    /\ threads = [t \in ServiceThreads |-> [position |-> "idle", offset |-> 0, runs |-> 0]]
    /\ requests = <<>>
    /\ now = 0
    /\ last_request_time = 0

Running(t) == threads[t].position = "running"

\* one pass of the date loop of run_daily_analysis in thread t: the fixtures of
\* the date at the current offset are requested; found tells whether any
\* league answered some.  The result is the thread's next record.
DateLoopStep(t, found) ==
    IF found \/ threads[t].offset = MaxDaysAhead
    THEN [threads[t] EXCEPT !.position = "idle", !.offset = 0]
    ELSE [threads[t] EXCEPT !.offset = @ + 1]

\* background_scheduler wakes up and awaits run_daily_task: the lock is tested
\* and taken, and the analysis starts
RunDailyTask ==
    /\ ~Running("loop")
    /\ threads["loop"].runs < MaxRuns
    /\ IF scheduler_lock
       THEN UNCHANGED <<scheduler_lock, threads>>
       ELSE /\ scheduler_lock' = TRUE
            /\ threads' = [threads EXCEPT !["loop"] =
                              [position |-> "running", offset |-> 0, runs |-> @.runs + 1]]
    /\ UNCHANGED <<op, args, ret, opportunities, ranked, pc, idx, saved, suggestions,
                   telegram, db, requests, now, last_request_time>>

\* the analysis of run_daily_task goes on; when it returns (or raises, which
\* the except clause absorbs) the lock is released
DailyAnalysisStep ==
    /\ Running("loop")
    /\ \E found \in BOOLEAN :
          /\ threads' = [threads EXCEPT !["loop"] = DateLoopStep("loop", found)]
          /\ scheduler_lock' = (threads'["loop"].position = "running")
    /\ requests' = Append(requests, [thread |-> "loop", offset |-> threads["loop"].offset])
    /\ UNCHANGED <<op, args, ret, opportunities, ranked, pc, idx, saved, suggestions,
                   telegram, db, now, last_request_time>>

\* GET /run is handed to a pool thread, which calls run_daily_analysis at once
RunOnce ==
    /\ ~Running("loop")
    /\ \E w \in Workers :
          /\ ~Running(w)
          /\ threads[w].runs < MaxRuns
          /\ threads' = [threads EXCEPT ![w] =
                            [position |-> "running", offset |-> 0, runs |-> @.runs + 1]]
    /\ UNCHANGED <<op, args, ret, opportunities, ranked, pc, idx, saved, suggestions,
                   telegram, db, scheduler_lock, requests, now, last_request_time>>

RunOnceAnalysisStep ==
    /\ \E w \in Workers :
          /\ Running(w)
          /\ \E found \in BOOLEAN :
                threads' = [threads EXCEPT ![w] = DateLoopStep(w, found)]
          /\ requests' = Append(requests, [thread |-> w, offset |-> threads[w].offset])
    /\ UNCHANGED <<op, args, ret, opportunities, ranked, pc, idx, saved, suggestions,
                   telegram, db, scheduler_lock, now, last_request_time>>

NextService ==
    \/ RunDailyTask
    \/ DailyAnalysisStep
    \/ RunOnce
    \/ RunOnceAnalysisStep

SpecService == InitService /\ [][NextService]_vars

----------------------------------------------------------------------------
(* Claims about the service                                                 *)

RunsInProgress == {t \in ServiceThreads : Running(t)}

\* C25 (as claimed): at most one run of run_daily_analysis is in progress at
\* any time, whether it was started by run_daily_task or by GET /run, and
\* scheduler_lock is True exactly while a run_daily_task run is executing.
C25_AtMostOneRun ==
    /\ Cardinality(RunsInProgress) <= 1
    /\ scheduler_lock <=> Running("loop")

\* The part that holds: the flag follows the daily run, and there is never more
\* than one daily run.
LockTracksDailyRun ==
    scheduler_lock <=> Running("loop")

----------------------------------------------------------------------------
(* Tables results and performance of football_value_detector/src/database.py *)
(* performance declares FOREIGN KEY(opportunity_id) REFERENCES               *)
(* opportunities(id); _connect issues no PRAGMA foreign_keys, and SQLite      *)
(* does not enforce foreign keys unless the connection asks for it.          *)
(* match_date is a property of the match: MatchDay gives the day of each.    *)

MatchDay(match_id) == IF match_id = FixtureIds[1] THEN 1 ELSE 2

\* _update_performance(match_id, result): nothing without an opportunity row,
\* else INSERT OR REPLACE on UNIQUE(match_id)
update_performance(d, match_id, result) ==
    LET opps == {r \in d.opportunities : r.match_id = match_id}
    IN  IF opps = {} THEN d
        ELSE LET opp == CHOOSE r \in opps : TRUE
             IN  [d EXCEPT !.performance =
                     {q \in d.performance : q.match_id # match_id}
                       \cup {[opportunity_id |-> opp.id, match_id |-> match_id,
                              actual_result |-> result,
                              analyzed_at |-> opp.analyzed_at]}]

\* save_result(result): a score of None makes home_score + away_score raise
\* inside the try, which returns False before anything is written
save_result(d, result) ==
    IF result.home_score = None \/ result.away_score = None
    THEN [db |-> d, ret |-> FALSE]
    ELSE
      LET total_goals     == RAdd(result.home_score, result.away_score)
          over_1_5_result == IF RGe(total_goals, Int2R(2)) THEN "WON" ELSE "LOST"
          with_result     ==
              [d EXCEPT !.results =
                  {r \in d.results : r.match_id # result.match_id}
                    \cup {[match_id |-> result.match_id, total_goals |-> total_goals,
                           over_1_5_result |-> over_1_5_result]}]
      IN  [db |-> update_performance(with_result, result.match_id, over_1_5_result),
           ret |-> TRUE]

\* clear_old_data: opportunities and results of matches before the cutoff day
\* are deleted; table performance is not touched
clear_old_data(d, cutoff_date) ==
    [d EXCEPT !.opportunities = {r \in d.opportunities : MatchDay(r.match_id) >= cutoff_date},
              !.results = {r \in d.results : MatchDay(r.match_id) >= cutoff_date}]

----------------------------------------------------------------------------
(* Specification SpecPerf: calls of save_opportunity (up to MaxSaves),      *)
(* save_result and clear_old_data on one database, in any order.            *)

ResultArgs ==
    {[match_id |-> m, home_score |-> s[1], away_score |-> s[2]] :
        m \in MatchIds,
        s \in {<<Int2R(2), Int2R(1)>>, <<Int2R(1), Zero>>, <<None, None>>}}

CutoffDates == {1, 2, 3}

InitPerf ==
    /\ IdleDetector
    /\ IdleRanking
    /\ IdleBatch
    /\ IdleStore
    /\ IdleService

SaveResult ==
    /\ \E result \in ResultArgs :
          /\ args' = result
          /\ ret' = save_result(db, result).ret
          /\ db' = save_result(db, result).db
    /\ op' = "save_result"
    /\ UNCHANGED <<opportunities, ranked, pc, idx, saved, suggestions, telegram, service>>

ClearOldData ==
    /\ \E cutoff_date \in CutoffDates :
          /\ args' = [cutoff_date |-> cutoff_date]
          /\ db' = clear_old_data(db, cutoff_date)
    /\ ret' = None
    /\ op' = "clear_old_data"
    /\ UNCHANGED <<opportunities, ranked, pc, idx, saved, suggestions, telegram, service>>

NextPerf ==
    \/ SaveOpportunity
    \/ SaveResult
    \/ ClearOldData

SpecPerf == InitPerf /\ [][NextPerf]_vars

\* C26 (as claimed): after any sequence of save_opportunity, save_result and
\* clear_old_data, every performance row refers, by opportunity_id, to an
\* existing opportunities row of the same match.
C26_PerformanceRefersToOpportunity ==
    \A q \in db.performance :
        \E r \in db.opportunities :
            r.id = q.opportunity_id /\ r.match_id = q.match_id

\* What does hold: there is at most one performance row per match, and its
\* opportunity_id is an id that table opportunities has issued at some time.
PerformanceRowsOncePointedToARow ==
    /\ \A q \in db.performance : q.opportunity_id \in 1..db.seq
    /\ \A q1, q2 \in db.performance : q1.match_id = q2.match_id => q1 = q2

----------------------------------------------------------------------------
(* get_odds of the two API clients.  The provider's answer is taken as the  *)
(* option values of the over/under bets in the order of the response (one   *)
(* bookmaker, the bets whose name passes the client's test).  An option is  *)
(* [side, line, odd]: the label "Over 1.5" is side "Over", line "1.5"; a    *)
(* label that is the bare line, "1.5", has side "".  odd is the decimal     *)
(* string as float() reads it, or None.                                     *)

Option(side, line, odd) == [side |-> side, line |-> line, odd |-> odd]

\* dict.setdefault(key, value)
SetDefault(parsed, key, value) ==
    IF parsed[key] = Missing THEN [parsed EXCEPT ![key] = value] ELSE parsed

\* the body of the innermost loop of APIClient.get_odds: '1.5' in label covers
\* "Over 1.5", "Under 1.5" and "1.5" alike
RECURSIVE src_parse_options(_, _)
src_parse_options(options, parsed) ==
    IF options = <<>> THEN parsed
    ELSE
      LET opt  == Head(options)
          next == IF opt.odd \in {None, Zero} THEN parsed      \* falsy odd
                  ELSE IF opt.line = "0.5" THEN SetDefault(parsed, "over_0_5_odds", opt.odd)
                  ELSE IF opt.line = "1.5" THEN SetDefault(parsed, "over_1_5_odds", opt.odd)
                  ELSE IF opt.line = "2.5" THEN SetDefault(parsed, "over_2_5_odds", opt.odd)
                  ELSE parsed
      IN  src_parse_options(Tail(options), next)

\* the fallback on TheOddsAPI: 'over 1.5' in name, and a truthy price
RECURSIVE src_parse_outcomes(_, _)
src_parse_outcomes(outcomes, parsed) ==
    IF outcomes = <<>> THEN parsed
    ELSE
      LET o    == Head(outcomes)
          next == IF o.odd \in {None, Zero} \/ o.side # "Over" THEN parsed
                  ELSE IF o.line = "0.5" THEN SetDefault(parsed, "over_0_5_odds", o.odd)
                  ELSE IF o.line = "1.5" THEN SetDefault(parsed, "over_1_5_odds", o.odd)
                  ELSE IF o.line = "2.5" THEN SetDefault(parsed, "over_2_5_odds", o.odd)
                  ELSE parsed
      IN  src_parse_outcomes(Tail(outcomes), next)

NoOdds ==
    [over_0_5_odds |-> Missing, over_1_5_odds |-> Missing, over_2_5_odds |-> Missing]

\* src/api_client.py APIClient.get_odds(fixture_id): resp is the answer of
\* _make_request("odds"), fallback the outcomes of the event TheOddsAPI has for
\* the fixture (empty without ODDS_API_KEY or without such an event)
src_get_odds(resp, fallback) ==
    LET parsed == src_parse_options(resp, NoOdds)
    IN  IF parsed # NoOdds THEN parsed
        ELSE src_parse_outcomes(fallback, NoOdds)

\* football_value_detector/src/api_client.py FootballAPIClient.get_odds: the
\* label must be the bare line ('0.5' or '1.5'); float(None) raises TypeError,
\* which nothing catches; the loop returns as soon as both keys are filled
RECURSIVE parse_values(_, _)
parse_values(values, optimized_odds) ==
    IF values = <<>> THEN optimized_odds
    ELSE
      LET value == Head(values)
          key   == IF value.line = "0.5" THEN "over_5_odds" ELSE "over_15_odds"
      IN  IF value.odd = None THEN Raised
          ELSE IF value.side = "" /\ value.line \in {"0.5", "1.5"} /\ RGt(value.odd, One)
          THEN LET stored == SetDefault(optimized_odds, key, value.odd)
               IN  IF stored.over_5_odds # Missing /\ stored.over_15_odds # Missing
                   THEN stored
                   ELSE parse_values(Tail(values), stored)
          ELSE parse_values(Tail(values), optimized_odds)

get_odds(data) ==
    IF data = <<>> THEN [over_5_odds |-> Missing, over_15_odds |-> Missing]
    ELSE parse_values(data, [over_5_odds |-> Missing, over_15_odds |-> Missing])

----------------------------------------------------------------------------
(* Specification SpecOdds: one call of get_odds (either client) on an       *)
(* answer of up to MaxOptions options.                                      *)

MaxOptions == 3

Prices == {One, R(130, 100), R(340, 100)}

Options ==
    {Option(side, line, odd) :
        side \in {"Over", "Under", ""}, line \in {"0.5", "1.5"}, odd \in Prices}
    \cup {Option("Over", "1.5", None)}

OptionLists == UNION {[1..n -> Options] : n \in 0..MaxOptions}

Fallbacks ==
    { <<>>,
      <<Option("Over", "1.5", R(180, 100))>>,
      <<Option("Under", "1.5", R(290, 100)), Option("Over", "1.5", One)>> }

InitOdds ==
    /\ op = "init"
    /\ args \in [resp : OptionLists, fallback : Fallbacks]
    /\ ret = NotCalled
    /\ IdleRanking
    /\ IdleBatch
    /\ IdleStore
    /\ IdleService

SrcGetOdds ==
    /\ op = "init"
    /\ ret' = src_get_odds(args.resp, args.fallback)
    /\ op' = "src_get_odds"
    /\ UNCHANGED <<args, opportunities, ranked, pc, idx, saved, suggestions, telegram, db, service>>

GetOdds ==
    /\ op = "init"
    /\ ret' = get_odds(args.resp)
    /\ op' = "get_odds"
    /\ UNCHANGED <<args, opportunities, ranked, pc, idx, saved, suggestions, telegram, db, service>>

NextOdds ==
    \/ SrcGetOdds
    \/ GetOdds

SpecOdds == InitOdds /\ [][NextOdds]_vars

----------------------------------------------------------------------------
(* Claims about get_odds                                                    *)

\* the options the provider quoted, in the answer and in the fallback
Quoted(a) ==
    {a.resp[i] : i \in 1..Len(a.resp)}
      \cup {a.fallback[i] : i \in 1..Len(a.fallback)}

\* price is what the provider quoted for the Over outcome of the line
IsOverPrice(a, line, price) ==
    \E o \in Quoted(a) : o.side # "Under" /\ o.line = line /\ o.odd = price

OverPriceSound(a, line, price) ==
    price # Missing => (RGt(price, One) /\ IsOverPrice(a, line, price))

\* C27 (as claimed): a price get_odds returns under the key of Over 1.5 (or
\* Over 0.5) is the price quoted for the Over outcome of that line and is
\* greater than 1.0, whatever the order of the outcomes in the answer.
C27_OverPriceIsOverOutcome ==
    /\ op = "src_get_odds" =>
           /\ OverPriceSound(args, "0.5", ret.over_0_5_odds)
           /\ OverPriceSound(args, "1.5", ret.over_1_5_odds)
    /\ (op = "get_odds" /\ ret # Raised) =>
           /\ OverPriceSound(args, "0.5", ret.over_5_odds)
           /\ OverPriceSound(args, "1.5", ret.over_15_odds)

\* The part that holds: FootballAPIClient.get_odds, which accepts a bare line
\* label only and tests odd > 1.0.
OverPriceSoundInFootballAPIClient ==
    (op = "get_odds" /\ ret # Raised) =>
        /\ OverPriceSound(args, "0.5", ret.over_5_odds)
        /\ OverPriceSound(args, "1.5", ret.over_15_odds)

----------------------------------------------------------------------------
(* src/api_client.py APIClient._make_request: the retry loop.               *)
(* The outcome of one requests.get is the provider's: a status 403 or 429,  *)
(* a 200 whose JSON carries 'errors', a 200 with data, a status that makes  *)
(* raise_for_status raise ("500") or a connection failure (both             *)
(* RequestException), or anything else that raises ("unexpected").          *)

Outcomes == {"403", "429", "errors", "ok", "500", "connection_error", "unexpected"}

Response == [type |-> "Response"]

Pow2(k) == IF k = 0 THEN 1 ELSE IF k = 1 THEN 2 ELSE IF k = 2 THEN 4
           ELSE IF k = 3 THEN 8 ELSE 16

\* the loop body with 403 handled like 429
make_request_attempt_retry_403(outcome, attempt) ==
    IF outcome \in {"403", "429", "500", "connection_error"}
    THEN [pc |-> "loop", ret |-> NotCalled, sleep |-> Pow2(attempt)]
    ELSE IF outcome = "ok" THEN [pc |-> "done", ret |-> Response, sleep |-> 0]
    ELSE [pc |-> "done", ret |-> None, sleep |-> 0]

\* one pass of the loop body for the given outcome: where the method is next,
\* what it has returned, and how long it slept
make_request_attempt(outcome, attempt) ==
    IF outcome = "403" THEN [pc |-> "done", ret |-> None, sleep |-> 0]
    ELSE IF outcome = "429" THEN [pc |-> "loop", ret |-> NotCalled, sleep |-> Pow2(attempt)]
    ELSE IF outcome = "errors" THEN [pc |-> "done", ret |-> None, sleep |-> 0]
    ELSE IF outcome = "ok" THEN [pc |-> "done", ret |-> Response, sleep |-> 0]
    ELSE IF outcome \in {"500", "connection_error"}       \* RequestException
         THEN [pc |-> "loop", ret |-> NotCalled, sleep |-> Pow2(attempt)]
    ELSE [pc |-> "done", ret |-> None, sleep |-> 0]       \* break, then return None

----------------------------------------------------------------------------
(* Specification SpecRequest: one call of _make_request by a client built   *)
(* with max_retries from 0 to MaxRetries (3 by default).  The thread that   *)
(* runs the loop keeps running: time.sleep returns and requests.get ends by *)
(* its timeout, hence the weak fairness on the steps.                       *)

MaxRetries == 3

InitRequest ==
    /\ op = "init"
    /\ args \in [max_retries : 0..MaxRetries]
    /\ ret = NotCalled
    /\ IdleRanking
    /\ pc = "loop"
    /\ idx = 0
    /\ saved = <<>>
    /\ suggestions = <<>>
    /\ telegram = FALSE
    /\ IdleStore
    /\ IdleService

\* for attempt in range(1, max_retries + 1): one requests.get and its handling
MakeRequestAttempt ==
    /\ pc = "loop"
    /\ idx < args.max_retries
    /\ \E outcome \in Outcomes :
          LET attempt == idx + 1
              step    == make_request_attempt(outcome, attempt)
          IN  /\ requests' = Append(requests, [attempt |-> attempt, outcome |-> outcome])
              /\ pc' = step.pc
              /\ ret' = step.ret
              /\ now' = now + step.sleep
    /\ idx' = idx + 1
    /\ op' = "make_request"
    /\ UNCHANGED <<args, opportunities, ranked, saved, suggestions, telegram, db,
                   scheduler_lock, threads, last_request_time>>

\* the loop is exhausted: "all attempts failed", return None
MakeRequestGiveUp ==
    /\ pc = "loop"
    /\ idx >= args.max_retries
    /\ pc' = "done"
    /\ ret' = None
    /\ op' = "make_request"
    /\ UNCHANGED <<args, opportunities, ranked, idx, saved, suggestions, telegram, db, service>>

NextRequest ==
    \/ MakeRequestAttempt
    \/ MakeRequestGiveUp

SpecRequest == InitRequest /\ [][NextRequest]_vars /\ WF_vars(NextRequest)

----------------------------------------------------------------------------
(* Claims about _make_request                                               *)

Retried == {"429", "500", "connection_error"}

RECURSIVE Backoff(_)
Backoff(log) ==
    IF log = <<>> THEN 0
    ELSE LET last == log[Len(log)]
         IN  Backoff(SubSeq(log, 1, Len(log) - 1))
               + (IF last.outcome \in Retried THEN Pow2(last.attempt) ELSE 0)

\* the state part of C28
RequestLoopSound ==
    /\ Len(requests) <= args.max_retries
    /\ \A i \in 1..Len(requests) :
          /\ requests[i].attempt = i
          /\ i < Len(requests) => requests[i].outcome \in Retried
    /\ (Len(requests) > 0 /\ requests[Len(requests)].outcome \notin Retried) =>
          /\ pc = "done"
          /\ ret = IF requests[Len(requests)].outcome = "ok" THEN Response ELSE None
    /\ now = Backoff(requests)
    /\ (pc = "done" /\ \A i \in 1..Len(requests) : requests[i].outcome # "ok") =>
          ret = None

\* C28: _make_request always terminates, after at most max_retries HTTP
\* attempts; a 403 or an 'errors' payload returns None with no further
\* attempt, a 429 or a connection error is retried after a backoff of
\* 2^attempt seconds, an unexpected exception stops the retries, and None is
\* returned when no attempt succeeded.
C28_RequestTerminates ==
    /\ []RequestLoopSound
    /\ <>(pc = "done")

\* C28 witness: three attempts were made, each of them retried after its
\* backoff (2 + 4 + 8 seconds), and the method returned None.
C28_Witness ==
    /\ op = "make_request"
    /\ Len(requests) = 3
    /\ requests[3].outcome = "429"
    /\ now = 14
    /\ pc = "done"
    /\ ret = None

----------------------------------------------------------------------------
(* src/analyzer.py Analyzer.run_daily_analysis: the scan over the dates.    *)
(* self.api is duck-typed: what get_fixtures answers for a date and a       *)
(* league (a list of fixtures, nothing, or an exception) is the provider's, *)
(* and so is whether the database accepts a save.  A date is the number of  *)
(* days after today; a fixture's id is its place in fixtures_for_date.      *)

ScanLeagues == <<39, 140>>          \* leagues_to_use

RaisedAnswer == [kind |-> "raise"]

ListAnswer(fixtures) == [kind |-> "list", fixtures |-> fixtures]

\* fixtures_for_date after the loop over the leagues; answers[i] is what
\* get_fixtures gave for ScanLeagues[i]
RECURSIVE fixtures_for_date(_)
fixtures_for_date(answers) ==
    IF answers = <<>> THEN <<>>
    ELSE LET last == answers[Len(answers)]
         IN  fixtures_for_date(SubSeq(answers, 1, Len(answers) - 1))
               \o (IF last.kind = "raise" THEN <<>> ELSE last.fixtures)

\* `for fx in fixtures_for_date`: the opportunities appended, each with date_str
RECURSIVE date_opportunities(_, _)
date_opportunities(fixtures, date) ==
    IF fixtures = <<>> THEN <<>>
    ELSE LET k    == Len(fixtures)
             opps == analyzer_fixture(fixtures[k], k)
         IN  date_opportunities(SubSeq(fixtures, 1, k - 1), date)
               \o [i \in 1..Len(opps) |->
                      [match_id |-> opps[i].match_id, market |-> opps[i].market,
                       odds |-> opps[i].odds, date |-> date]]

\* the arguments save_opportunity receives for an opportunity
saved_row(opp) == [match_id |-> opp.match_id, market |-> opp.market, odds |-> opp.odds]

\* a scan that goes on to the next date whatever it found
after_date_never_stops(found_any) == "scan"

\* `if not fixtures_for_date: continue` ... `if found_any: break`
after_date(found_any) == IF found_any THEN "found" ELSE "scan"

----------------------------------------------------------------------------
(* Specification SpecScan: one call of run_daily_analysis with              *)
(* MAX_DAYS_AHEAD from 0 to MaxDaysAhead and days_to_add 0 or 1.            *)

MaxLeagueFixtures == 1      \* fixtures one league has on one date

ScanFixtureCases ==
    { GoodFx,                                                        \* 1.60
      Fx(TRUE, TRUE, FALSE, TRUE, TRUE, TRUE, AbsentMarket, Market(700, 120)),
      Fx(TRUE, TRUE, FALSE, TRUE, TRUE, TRUE, AbsentMarket, Market(700, 110)),
      Fx(TRUE, TRUE, FALSE, TRUE, TRUE, TRUE, AbsentMarket, AbsentMarket),
      Fx(TRUE, TRUE, FALSE, TRUE, TRUE, FALSE, AbsentMarket, Market(700, 160)),
      Fx(FALSE, TRUE, FALSE, TRUE, TRUE, TRUE, AbsentMarket, Market(700, 160)) }

LeagueAnswers ==
    {RaisedAnswer}
      \cup {ListAnswer(fs) :
               fs \in UNION {[1..n -> ScanFixtureCases] : n \in 0..MaxLeagueFixtures}}

InitScan ==
    /\ op = "init"
    /\ args \in [max_ahead : 0..MaxDaysAhead, days_to_add : {0, 1}]
    /\ ret = NotCalled
    /\ IdleRanking
    /\ IdleBatch
    /\ IdleStore
    /\ IdleService

\* one pass of `for offset in range(0, max_ahead + 1)`: the leagues are
\* queried for the date and, if any fixture came back, they are processed
ScanDate ==
    /\ op \in {"init", "run_daily_analysis"}
    /\ pc \in {"idle", "scan"}
    /\ idx <= args.max_ahead
    /\ \E answers \in [1..Len(ScanLeagues) -> LeagueAnswers], db_ok \in BOOLEAN :
          LET date     == args.days_to_add + idx
              fixtures == fixtures_for_date(answers)
              opps     == date_opportunities(fixtures, date)
          IN  /\ requests' = requests \o
                     [i \in 1..Len(ScanLeagues) |->
                         [date |-> date, league |-> ScanLeagues[i], answer |-> answers[i]]]
              /\ opportunities' = opportunities \o opps
              /\ saved' = IF db_ok
                          THEN saved \o [i \in 1..Len(opps) |-> saved_row(opps[i])]
                          ELSE saved
              /\ pc' = after_date(fixtures # <<>>)
    /\ idx' = idx + 1
    /\ op' = "run_daily_analysis"
    /\ UNCHANGED <<args, ret, ranked, suggestions, telegram, db,
                   scheduler_lock, threads, now, last_request_time>>

\* the loop was left by break or ran out of offsets: return all_opportunities
ScanFinish ==
    /\ op \in {"init", "run_daily_analysis"}
    /\ \/ pc = "found"
       \/ pc \in {"idle", "scan"} /\ idx > args.max_ahead
    /\ ret' = opportunities
    /\ pc' = "done"
    /\ op' = "run_daily_analysis"
    /\ UNCHANGED <<args, opportunities, ranked, idx, saved, suggestions, telegram, db, service>>

NextScan ==
    \/ ScanDate
    \/ ScanFinish

SpecScan == InitScan /\ [][NextScan]_vars

----------------------------------------------------------------------------
(* Claims about the scan over the dates                                     *)

\* the fixtures the provider returned for a date, in the order of the queries
RECURSIVE ReturnedFor(_, _)
ReturnedFor(log, date) ==
    IF log = <<>> THEN <<>>
    ELSE LET last == log[Len(log)]
         IN  ReturnedFor(SubSeq(log, 1, Len(log) - 1), date)
               \o (IF last.date = date /\ last.answer.kind = "list"
                   THEN last.answer.fixtures ELSE <<>>)

DatesWithFixtures == {d \in 0..(MaxDaysAhead + 2) : ReturnedFor(requests, d) # <<>>}

\* the fixture has an Over 1.5 price, and the price reaches the threshold
PriceReachesThreshold(fx) ==
    /\ fx.odds_ok
    /\ fx.over_1_5.odds # None
    /\ RGe(fx.over_1_5.odds, ODDS_THRESHOLD)

OpportunityOfScan(o) ==
    /\ o.match_id \in 1..Len(ReturnedFor(requests, o.date))
    /\ PriceReachesThreshold(ReturnedFor(requests, o.date)[o.match_id])

\* C29: run_daily_analysis queries the dates today + days_to_add + 0, + 1, ...
\* up to MAX_DAYS_AHEAD in increasing order; once a date returned fixtures no
\* later date is queried; every opportunity returned carries that date; no
\* fixture whose Over 1.5 price is missing or below the threshold is saved or
\* returned.
C29_ScanStopsAtFirstDate ==
    /\ \A i \in 1..Len(requests) :
          /\ requests[i].date = args.days_to_add + ((i - 1) \div Len(ScanLeagues))
          /\ requests[i].date <= args.days_to_add + args.max_ahead
    /\ \A d \in DatesWithFixtures :
          \A i \in 1..Len(requests) : requests[i].date <= d
    /\ \A i \in 1..Len(opportunities) :
          /\ opportunities[i].date \in DatesWithFixtures
          /\ OpportunityOfScan(opportunities[i])
    /\ \A i \in 1..Len(saved) :
          \E j \in 1..Len(opportunities) : saved[i] = saved_row(opportunities[j])
    /\ pc = "done" => ret = opportunities

\* C29 witness: the first date had no fixtures, the second had two, one priced
\* below the threshold; the scan returned the other one, saved, with that date.
C29_Witness ==
    /\ pc = "done"
    /\ Len(requests) = 2 * Len(ScanLeagues)
    /\ args.max_ahead >= 1
    /\ Len(ReturnedFor(requests, args.days_to_add + 1)) = 2
    /\ \E k \in 1..2 :
          ~PriceReachesThreshold(ReturnedFor(requests, args.days_to_add + 1)[k])
    /\ Len(ret) = 1
    /\ ret[1].date = args.days_to_add + 1
    /\ Len(saved) = 1

----------------------------------------------------------------------------
(* football_value_detector/src/api_client.py FootballAPIClient._rate_limit  *)
(* and _make_request, called by threads that share one client.  Time is in  *)
(* seconds.  _rate_limit takes no lock: reading last_request_time, sleeping *)
(* and writing it back are separate steps of a thread.  The request leaves  *)
(* in the same second as the write that precedes it.                        *)

min_request_interval == 2

\* where _rate_limit goes after `elapsed = time.time() - self.last_request_time`
rate_limit_read(thread, clock, last) ==
    LET elapsed == clock - last
    IN  IF elapsed < min_request_interval
        THEN [thread EXCEPT !.position = "sleep",
                            !.wake = clock + (min_request_interval - elapsed)]
        ELSE [thread EXCEPT !.position = "stamp"]

----------------------------------------------------------------------------
(* Specification SpecLimit: two threads, each calling _make_request at most *)
(* MaxCalls times, until the clock reads MaxTime.                           *)

MaxCalls == 2

MaxTime == 8

StartTime == 2      \* time.time() is far above last_request_time = 0 at the first call

LimitThreads == {"t1", "t2"}

InitLimit ==
    /\ IdleDetector
    /\ IdleRanking
    /\ IdleBatch
    /\ IdleStore
    /\ scheduler_lock = FALSE
    /\ threads = [t \in LimitThreads |-> [position |-> "idle", wake |-> 0, calls |-> 0]]
    /\ requests = <<>>
    /\ now = StartTime
    /\ last_request_time = 0

\* _make_request enters _rate_limit: elapsed is computed
RateLimitRead ==
    \E t \in LimitThreads :
        /\ threads[t].position = "idle"
        /\ threads[t].calls < MaxCalls
        /\ threads' = [threads EXCEPT ![t] = rate_limit_read(@, now, last_request_time)]
        /\ UNCHANGED <<op, args, ret, opportunities, ranked, pc, idx, saved, suggestions, telegram, db,
                       scheduler_lock, requests, now, last_request_time>>

\* time.sleep(sleep_time) returns
RateLimitWake ==
    \E t \in LimitThreads :
        /\ threads[t].position = "sleep"
        /\ now >= threads[t].wake
        /\ threads' = [threads EXCEPT ![t].position = "stamp"]
        /\ UNCHANGED <<op, args, ret, opportunities, ranked, pc, idx, saved, suggestions, telegram, db,
                       scheduler_lock, requests, now, last_request_time>>

\* self.last_request_time = time.time()
RateLimitStamp ==
    \E t \in LimitThreads :
        /\ threads[t].position = "stamp"
        /\ last_request_time' = now
        /\ threads' = [threads EXCEPT ![t].position = "get"]
        /\ UNCHANGED <<op, args, ret, opportunities, ranked, pc, idx, saved, suggestions, telegram, db,
                       scheduler_lock, requests, now>>

\* self.session.get(url, ...): the HTTP request is issued
SessionGet ==
    \E t \in LimitThreads :
        /\ threads[t].position = "get"
        /\ requests' = Append(requests, [thread |-> t, time |-> now])
        /\ threads' = [threads EXCEPT ![t].position = "idle", ![t].calls = @ + 1]
        /\ UNCHANGED <<op, args, ret, opportunities, ranked, pc, idx, saved, suggestions, telegram, db,
                       scheduler_lock, now, last_request_time>>

\* a second passes
Tick ==
    /\ now < MaxTime
    /\ \A t \in LimitThreads : threads[t].position # "get"
    /\ now' = now + 1
    /\ UNCHANGED <<op, args, ret, opportunities, ranked, pc, idx, saved, suggestions, telegram, db,
                   scheduler_lock, threads, requests, last_request_time>>

NextLimit ==
    \/ RateLimitRead
    \/ RateLimitWake
    \/ RateLimitStamp
    \/ SessionGet
    \/ Tick

SpecLimit == InitLimit /\ [][NextLimit]_vars

----------------------------------------------------------------------------
(* Claims about the rate limit                                              *)

Spaced(log) ==
    \A i \in 2..Len(log) : log[i].time - log[i - 1].time >= min_request_interval

\* C30: between any two consecutive HTTP requests issued through one
\* FootballAPIClient at least min_request_interval seconds elapse, also when
\* the calls come from several threads sharing the client.
C30_RequestsSpaced == Spaced(requests)

\* as long as a single thread has issued the requests, they are spaced
RequestsOfOneThreadSpaced ==
    (\E t \in LimitThreads : \A i \in 1..Len(requests) : requests[i].thread = t)
        => Spaced(requests)

====
